---- MODULE Spec2Model ----
(***************************************************************************)
(* A model of the data-analysis agent: the sandboxed execution engine      *)
(* (utils/code_executor.py), the dual-endpoint model client                *)
(* (utils/fallback_openai_client.py, utils/llm_helper.py), the response    *)
(* parser (utils/extract_code.py, LLMHelper.parse_yaml_response) and the   *)
(* control loop (data_analysis_agent.py).                                  *)
(*                                                                         *)
(* The specifications of the module:                                       *)
(*   ExecSpec    the execution engine driven with arbitrary fragments      *)
(*               (ImportSpec with import statements only, TableSpec with   *)
(*               a table of each size bound in the session),               *)
(*   ClientSpec  one completion call of the model client                   *)
(*               (FairClientSpec adds that requests and sleeps end),       *)
(*   Spec        the control loop of DataAnalysisAgent.analyze             *)
(*               (FairSpec adds the fairness of a sequential program),     *)
(*   ConvertSpec the same loop answered with plotting code, the chart      *)
(*               conversions of the final-report pass and the host's use   *)
(*               of the executor afterwards.                               *)
(***************************************************************************)
EXTENDS Integers, Sequences, FiniteSets, TLC

VARIABLES
    user_ns,              \* InteractiveShell.instance().user_ns: name -> value
    exec_pc,              \* the engine's last operation, or "composing"
    last_code,            \* the fragment submitted to execute_code
    last_result,          \* the outcome record of the last execute_code call
    ns_before,            \* user_ns at the start of the engine's last operation
    ran_cell,             \* whether the last execute_code call reached shell.run_cell
    cfg,                  \* the client's construction arguments
    cpc,                  \* position inside chat_completions_create
    attempt,              \* loop variable of _attempt_api_call
    last_exception,       \* last_exception of _attempt_api_call
    in_flight,            \* endpoints with an outstanding network request
    p_attempts,           \* primary attempts made in this call
    f_attempts,           \* fallback attempts made in this call
    p_log,                \* how each primary attempt of this call ended
    f_log,                \* how each fallback attempt of this call ended
    sleeps,               \* backoff sleeps made in this call
    call_result,          \* what chat_completions_create returned or raised
    max_rounds,           \* DataAnalysisAgent.max_rounds
    current_round,        \* DataAnalysisAgent.current_round
    conversation_history, \* DataAnalysisAgent.conversation_history
    analysis_results,     \* DataAnalysisAgent.analysis_results
    pc,                   \* position inside analyze
    loop_calls,           \* model calls made by the round loop
    report_calls,         \* model calls made by the final-report pass
    round_log,            \* per round: what the round did
    returned,             \* the dictionary analyze returned
    conversion            \* position inside the chart conversions

exec_vars   == <<user_ns, exec_pc, last_code, last_result, ns_before, ran_cell>>
client_vars == <<cfg, cpc, attempt, last_exception, in_flight, p_attempts,
                 f_attempts, p_log, f_log,
                 sleeps, call_result>>
agent_vars  == <<max_rounds, current_round, conversation_history,
                 analysis_results, pc, loop_calls, report_calls, round_log,
                 returned, conversion>>
vars        == <<exec_vars, client_vars, agent_vars>>

(***************************************************************************)
(* Bounds of the model.                                                    *)
(***************************************************************************)
MaxStmts        == 2    \* statements per fragment in ExecSpec
MaxRetriesBound == 2    \* largest max_retries_primary / max_retries_fallback
MaxRoundsBound  == 2    \* largest max_rounds
MaxRows         == 17   \* most rows of the table bound to df in TableSpec

NoValue == [type |-> "NoneType"]

(***************************************************************************)
(* SANDBOXED EXECUTION ENGINE                                              *)
(***************************************************************************)

\* CodeExecutor.ALLOWED_IMPORTS
ALLOWED_IMPORTS ==
    {"pandas", "pd", "numpy", "np", "matplotlib", "matplotlib.pyplot", "plt",
     "duckdb", "scipy", "sklearn", "plotly", "dash", "requests", "urllib",
     "os", "sys", "json", "csv", "datetime", "time", "math", "statistics",
     "re", "pathlib", "io", "collections", "itertools", "functools",
     "operator", "warnings", "logging", "copy", "pickle", "gzip", "zipfile",
     "typing", "dataclasses", "enum", "sqlite3"}

\* the names _check_code_safety refuses to see called directly
DANGEROUS_CALLS == {"exec", "eval", "open", "__import__"}

(***************************************************************************)
(* Syntax trees as ast.parse builds them: each node carries its children   *)
(* in the order of ast.iter_child_nodes (the order of the node's _fields). *)
(***************************************************************************)
Name(id)            == [type |-> "Name", id |-> id, children |-> <<>>]
Constant(v)         == [type |-> "Constant", value |-> v, children |-> <<>>]
Attribute(value, a) == [type |-> "Attribute", attr |-> a, children |-> <<value>>]
Call(func, args)    == [type |-> "Call", func |-> func, args |-> args,
                        children |-> <<func>> \o args]
Expr(value)         == [type |-> "Expr", value |-> value, children |-> <<value>>]
Assign(target, value) ==
    [type |-> "Assign", target |-> target, value |-> value,
     children |-> <<Name(target), value>>]
Alias(name, bind)   == [type |-> "alias", name |-> name, bind |-> bind,
                        children |-> <<>>]
Import(names)       == [type |-> "Import", names |-> names, children |-> names]
ImportFrom(module, names) ==
    [type |-> "ImportFrom", module |-> module, names |-> names,
     children |-> names]
Arguments           == [type |-> "arguments", children |-> <<>>]
FunctionDef(name, body) ==
    [type |-> "FunctionDef", name |-> name, body |-> body,
     children |-> <<Arguments>> \o body]
If(test, body)      == [type |-> "If", test |-> test, body |-> body,
                        children |-> <<test>> \o body]
AnnAssign(target, annotation) ==
    [type |-> "AnnAssign", target |-> target, annotation |-> annotation,
     children |-> <<Name(target), Name(annotation)>>]
Raise(exc)          == [type |-> "Raise", exc |-> exc, children |-> <<exc>>]
Return              == [type |-> "Return", children |-> <<>>]
Module(body)        == [type |-> "Module", body |-> body, children |-> body]
\* a line the Python grammar rejects; it has no syntax tree
Unparsable          == [type |-> "Unparsable", children |-> <<>>]

\* every node of the lines of a fragment, at any depth
RECURSIVE NodesOf(_)
NodesOf(queue) ==
    IF queue = <<>> THEN {}
    ELSE {Head(queue)} \cup NodesOf(Tail(queue) \o Head(queue).children)

\* ast.parse(code): a Module, or SyntaxError when some line does not parse
ParseOK(code) == \A i \in 1..Len(code) : code[i].type # "Unparsable"

Safe == [safe |-> TRUE, kind |-> "", name |-> ""]
Unsafe(kind, name) == [safe |-> FALSE, kind |-> kind, name |-> name]

\* the first alias of an Import that is not allow-listed, as a sequence
DisallowedAliases(names) ==
    SelectSeq(names, LAMBDA a : a.name \notin ALLOWED_IMPORTS)

\* the top-level package of the dotted module names the fragments use
TopPackage(name) ==
    CASE name = "os.path" -> "os"
      [] name = "sklearn.linear_model" -> "sklearn"
      [] name = "matplotlib.pyplot" -> "matplotlib"
      [] OTHER -> name
\* a verdict that looks up the top-level package of an imported module
NodeVerdictTopPackage(node) ==
    IF node.type = "Import"
          /\ SelectSeq(node.names,
                       LAMBDA a : TopPackage(a.name) \notin ALLOWED_IMPORTS) # <<>>
        THEN Unsafe("Disallowed import",
                    Head(SelectSeq(node.names,
                                   LAMBDA a : TopPackage(a.name)
                                                  \notin ALLOWED_IMPORTS)).name)
    ELSE IF node.type = "ImportFrom"
            /\ TopPackage(node.module) \notin ALLOWED_IMPORTS
        THEN Unsafe("Disallowed import", node.module)
    ELSE IF node.type = "Call" /\ node.func.type = "Name"
            /\ node.func.id \in DANGEROUS_CALLS
        THEN Unsafe("Disallowed function call", node.func.id)
    ELSE Safe
\* a verdict that looks for calls through an attribute instead of a name
NodeVerdictAttributeCalls(node) ==
    IF node.type = "Import" /\ DisallowedAliases(node.names) # <<>>
        THEN Unsafe("Disallowed import", Head(DisallowedAliases(node.names)).name)
    ELSE IF node.type = "ImportFrom" /\ node.module \notin ALLOWED_IMPORTS
        THEN Unsafe("Disallowed import", node.module)
    ELSE IF node.type = "Call" /\ node.func.type = "Attribute"
            /\ node.func.attr \in DANGEROUS_CALLS
        THEN Unsafe("Disallowed function call", node.func.attr)
    ELSE Safe
\* the verdict of _check_code_safety on one node of the walk
NodeVerdict(node) ==
    IF node.type = "Import" /\ DisallowedAliases(node.names) # <<>>
        THEN Unsafe("Disallowed import", Head(DisallowedAliases(node.names)).name)
    ELSE IF node.type = "ImportFrom" /\ node.module \notin ALLOWED_IMPORTS
        THEN Unsafe("Disallowed import", node.module)
    ELSE IF node.type = "Call" /\ node.func.type = "Name"
            /\ node.func.id \in DANGEROUS_CALLS
        THEN Unsafe("Disallowed function call", node.func.id)
    ELSE Safe

\* for node in ast.walk(tree): breadth first, the queue extended with the
\* children of each node popped; returns at the first unsafe node
RECURSIVE WalkVerdict(_)
WalkVerdict(queue) ==
    IF queue = <<>> THEN Safe
    ELSE IF ~NodeVerdict(Head(queue)).safe THEN NodeVerdict(Head(queue))
    ELSE WalkVerdict(Tail(queue) \o Head(queue).children)

\* a check that looks at the top-level statements only
RECURSIVE TopLevelVerdict(_)
TopLevelVerdict(body) ==
    IF body = <<>> THEN Safe
    ELSE IF ~NodeVerdict(Head(body)).safe THEN NodeVerdict(Head(body))
    ELSE TopLevelVerdict(Tail(body))
check_code_safety_top_level(code) ==
    IF ~ParseOK(code) THEN Unsafe("Syntax error", "")
    ELSE TopLevelVerdict(code)
\* a check that lets a fragment through when it does not parse
check_code_safety_no_syntax(code) ==
    IF ~ParseOK(code) THEN Safe
    ELSE WalkVerdict(<<Module(code)>>)
\* CodeExecutor._check_code_safety: (is_safe, error_message)
check_code_safety(code) ==
    IF ~ParseOK(code) THEN Unsafe("Syntax error", "")
    ELSE WalkVerdict(<<Module(code)>>)

(***************************************************************************)
(* Values of the interpreter session and the run of a cell.                *)
(***************************************************************************)
DataFrame(rows)  == [type |-> "DataFrame", rows |-> rows]
Series(rows)     == [type |-> "Series", rows |-> rows]
IntValue         == [type |-> "int", n |-> 1]
IntConst(n)      == [type |-> "int", n |-> n]
StrValue(text)   == [type |-> "str", text |-> text]
BoolValue(b)     == [type |-> "bool", b |-> b]
ModuleValue(m)   == [type |-> "module", name |-> m]
FunctionValue    == [type |-> "function"]
ExceptionValue   == [type |-> "ValueError"]

\* hasattr(value, 'shape')
HasShape(v) == v.type \in {"DataFrame", "Series", "ndarray"}
\* hasattr(value, 'shape') and hasattr(value, 'head')
HasHead(v)  == v.type \in {"DataFrame", "Series"}

\* var_name.startswith('_') over the names of the model
PrivateNames == {"_", "__", "___", "_i", "_ii", "_iii", "_ih", "_oh", "_dh",
                 "_tmp"}

\* allow-listed names that are aliases, not importable modules
NotModules == {"pd", "np", "plt"}

\* user_ns after CodeExecutor.__init__: what IPython binds itself, then
\* _setup_chinese_font and _setup_common_imports
IPythonNames == {"In", "Out", "get_ipython", "exit", "quit", "_", "__", "___",
                 "_i", "_ii", "_iii", "_ih", "_oh", "_dh"}
CommonImports ==
    ("matplotlib" :> ModuleValue("matplotlib")) @@
    ("plt" :> ModuleValue("matplotlib.pyplot")) @@
    ("pd" :> ModuleValue("pandas")) @@
    ("np" :> ModuleValue("numpy")) @@
    ("duckdb" :> ModuleValue("duckdb")) @@
    ("os" :> ModuleValue("os")) @@
    ("json" :> ModuleValue("json")) @@
    ("display" :> FunctionValue)
FreshShellNs == [n \in IPythonNames |-> StrValue("")]
\* _setup_chinese_font and _setup_common_imports run in the shell: they
\* rebind the import names and leave every other binding alone
setup_common_imports(ns) == CommonImports @@ ns
BaselineNs == setup_common_imports(FreshShellNs)

Bind(ns, name, value) == (name :> value) @@ ns

NoOutcome == [err |-> "", value |-> NoValue, out |-> <<>>]

\* the value of a call, given the values f of the callee and a of the argument
EvalCall(node, f, a) ==
    IF f.err # "" THEN f
    ELSE IF a.err # "" THEN [a EXCEPT !.out = f.out \o a.out]
    ELSE IF node.func.type = "Name" /\ node.func.id = "print"
        THEN [err |-> "", value |-> NoValue, out |-> a.out \o <<a.value>>]
    ELSE IF node.func.type = "Name" /\ node.func.id = "ValueError"
        THEN [err |-> "", value |-> ExceptionValue, out |-> a.out]
    ELSE IF node.func.type = "Attribute" /\ node.func.attr = "DataFrame"
        THEN [err |-> "", value |-> DataFrame(a.value.n), out |-> a.out]
    ELSE IF node.func.type = "Attribute" /\ node.func.attr = "Series"
        THEN [err |-> "", value |-> Series(a.value.n), out |-> a.out]
    ELSE IF node.func.type = "Attribute" /\ node.func.attr = "savefig"
        THEN [err |-> "", value |-> NoValue, out |-> a.out]
    ELSE [err |-> "", value |-> IntValue, out |-> a.out]

\* the value of an attribute access, given the value v of its object
EvalAttribute(v) ==
    IF v.err # "" THEN v
    ELSE [err |-> "", value |-> FunctionValue, out |-> v.out]

\* the value of an expression: [err, value, out]; sub holds the values of
\* the node's children, each computed only where the evaluation needs it
RECURSIVE Eval(_, _)
EvalNode(node, ns, sub) ==
    IF node.type = "Constant" THEN [NoOutcome EXCEPT !.value = node.value]
    ELSE IF node.type = "Name" THEN
        IF node.id \in DOMAIN ns
            THEN [NoOutcome EXCEPT !.value = ns[node.id]]
            ELSE [NoOutcome EXCEPT !.err = "NameError"]
    ELSE IF node.type = "Attribute" THEN EvalAttribute(sub[1])
    ELSE IF node.type = "Call" THEN
        EvalCall(node,
                 IF node.func.type = "Name"
                     THEN [NoOutcome EXCEPT !.value = FunctionValue]
                     ELSE sub[1],
                 IF node.args = <<>> THEN NoOutcome ELSE sub[2])
    ELSE [NoOutcome EXCEPT !.err = "TypeError"]
Eval(node, ns) ==
    EvalNode(node, ns,
             [i \in 1..Len(node.children) |-> Eval(node.children[i], ns)])

\* the aliases of an import statement bound in order, up to the first that
\* cannot be imported
RECURSIVE BindAliases(_, _, _)
BindAliases(names, st, value) ==
    IF names = <<>> THEN st
    ELSE IF Head(names).name \in NotModules
        THEN [st EXCEPT !.err = "ModuleNotFoundError"]
    ELSE BindAliases(Tail(names),
                     [st EXCEPT !.ns = Bind(st.ns, Head(names).bind,
                                            IF value = NoValue
                                                THEN ModuleValue(Head(names).name)
                                                ELSE value)],
                     value)

\* the session after an assignment whose right-hand side evaluated to r
AfterAssign(target, st, r) ==
    IF r.err # ""
        THEN [st EXCEPT !.out = st.out \o r.out, !.err = r.err]
        ELSE [st EXCEPT !.out = st.out \o r.out,
                        !.ns = Bind(st.ns, target, r.value),
                        !.value = NoValue]
\* the session after an expression statement that evaluated to r
AfterExpr(st, r) ==
    [st EXCEPT !.out = st.out \o r.out, !.err = r.err, !.value = r.value]
\* the session after raise of the expression that evaluated to r
AfterRaise(st, r) ==
    [st EXCEPT !.out = st.out \o r.out,
               !.err = IF r.err # "" THEN r.err ELSE r.value.type]

\* one statement run in the session: st = [ns, out, err, value]
RECURSIVE ExecStmt(_, _)
RECURSIVE ExecBody(_, _)
ExecStmt(stmt, st) ==
    IF stmt.type = "Assign" THEN
        AfterAssign(stmt.target, st, Eval(stmt.value, st.ns))
    ELSE IF stmt.type = "Expr" THEN
        AfterExpr(st, Eval(stmt.value, st.ns))
    ELSE IF stmt.type = "Import" THEN
        BindAliases(stmt.names, [st EXCEPT !.value = NoValue], NoValue)
    ELSE IF stmt.type = "ImportFrom" THEN
        IF stmt.module \in NotModules
            THEN [st EXCEPT !.err = "ModuleNotFoundError"]
            ELSE BindAliases(stmt.names, [st EXCEPT !.value = NoValue],
                             FunctionValue)
    ELSE IF stmt.type = "FunctionDef" THEN
        [st EXCEPT !.ns = Bind(st.ns, stmt.name, FunctionValue),
                   !.value = NoValue]
    ELSE IF stmt.type = "If" THEN
        IF stmt.test.value = BoolValue(TRUE)
            THEN ExecBody(stmt.body, [st EXCEPT !.value = NoValue])
            ELSE [st EXCEPT !.value = NoValue]
    ELSE IF stmt.type = "AnnAssign" THEN
        \* a bare annotation at module level evaluates the annotation only
        [st EXCEPT !.err = Eval(Name(stmt.annotation), st.ns).err,
                   !.value = NoValue]
    ELSE IF stmt.type = "Raise" THEN
        AfterRaise(st, Eval(stmt.exc, st.ns))
    ELSE st
ExecBody(body, st) ==
    IF body = <<>> \/ st.err # "" THEN st
    ELSE ExecBody(Tail(body), ExecStmt(Head(body), st))

\* what the compiler refuses although ast.parse accepted it: a return
\* outside a function
RECURSIVE CompileOK(_)
CompileOK(stmt) ==
    /\ stmt.type # "Return"
    /\ stmt.type = "If" =>
          \A i \in 1..Len(stmt.body) : CompileOK(stmt.body[i])

\* InteractiveShell.run_cell: a cell that does not parse runs nothing
\* (error_before_exec); otherwise the top-level nodes are compiled and run one
\* after the other; the run stops at the first node that does not compile
\* (error_before_exec) or that raises (error_in_exec). The value of a last
\* expression statement is the cell's result and is bound to _.
RECURSIVE RunNodes(_, _)
\* the run after the first of nodes left the session in s1
AfterNode(nodes, s1) ==
    IF s1.err # "" THEN [s1 EXCEPT !.error_in_exec = s1.err]
    ELSE IF Len(nodes) = 1 /\ Head(nodes).type = "Expr"
            /\ s1.value # NoValue
        THEN [s1 EXCEPT !.result = s1.value,
                        !.ns = Bind(s1.ns, "_", s1.value)]
    ELSE RunNodes(Tail(nodes), s1)
RunNodes(nodes, st) ==
    IF nodes = <<>> THEN st
    ELSE IF ~CompileOK(Head(nodes))
        THEN [st EXCEPT !.error_before_exec = "SyntaxError"]
    ELSE AfterNode(nodes,
                   ExecStmt(Head(nodes), [st EXCEPT !.value = NoValue]))

run_cell(code, ns) ==
    IF ~ParseOK(code)
        THEN [ns |-> ns, out |-> <<>>, err |-> "", value |-> NoValue,
              result |-> NoValue, error_before_exec |-> "SyntaxError",
              error_in_exec |-> ""]
    ELSE
    RunNodes(code, [ns |-> ns, out |-> <<>>, err |-> "", value |-> NoValue,
                    result |-> NoValue, error_before_exec |-> "",
                    error_in_exec |-> ""])

\* a formatter that shows a table in full only when it has under 15 rows
format_table_output_under_15(obj) ==
    IF HasShape(obj) /\ HasHead(obj) THEN
        IF obj.type = "Series"
            THEN [raises |-> TRUE, text |-> [full |-> TRUE, rows |-> 0, omitted |-> 0]]
        ELSE IF obj.rows < 15
            THEN [raises |-> FALSE,
                  text |-> [full |-> TRUE, rows |-> obj.rows, omitted |-> 0]]
            ELSE [raises |-> FALSE,
                  text |-> [full |-> FALSE, rows |-> 10,
                            omitted |-> obj.rows - 10]]
    ELSE [raises |-> FALSE, text |-> [full |-> TRUE, rows |-> 0, omitted |-> 0]]
\* CodeExecutor._format_table_output: the text shown for the cell's result,
\* or the exception that unpacking a one-dimensional shape raises
format_table_output(obj) ==
    IF HasShape(obj) /\ HasHead(obj) THEN
        IF obj.type = "Series"
            THEN [raises |-> TRUE, text |-> [full |-> TRUE, rows |-> 0, omitted |-> 0]]
        ELSE IF obj.rows <= 15
            THEN [raises |-> FALSE,
                  text |-> [full |-> TRUE, rows |-> obj.rows, omitted |-> 0]]
            ELSE [raises |-> FALSE,
                  text |-> [full |-> FALSE, rows |-> 10,
                            omitted |-> obj.rows - 10]]
    ELSE [raises |-> FALSE, text |-> [full |-> TRUE, rows |-> 0, omitted |-> 0]]

NoError == [prefix |-> "", kind |-> "", name |-> ""]
NoVariables == [n \in {} |-> NoValue]
NoResult == [success |-> FALSE, output |-> <<>>, error |-> NoError,
             variables |-> NoVariables]

\* a report of every important variable of the session, new or not
ImportantVarsOfSession(before, after) ==
    LET kept == {n \in DOMAIN after :
                    /\ n \notin PrivateNames
                    /\ (HasShape(after[n]) \/ n = "session_output_dir")}
    IN  [n \in kept |-> after[n]]
\* the newly created important variables of execute_code
ImportantNewVars(before, after) ==
    LET new_vars == (DOMAIN after) \ (DOMAIN before)
        kept == {n \in new_vars :
                    /\ n \notin PrivateNames
                    /\ (HasShape(after[n]) \/ n = "session_output_dir")}
    IN  [n \in kept |-> after[n]]

\* CodeExecutor.get_environment_info: the variables it lists, read from the
\* namespace of the shell. A value with a shape, session_output_dir and a
\* short int, float, str or bool are listed; the last branch asks for a
\* __module__ attribute equal to pandas, numpy or matplotlib.pyplot, which
\* neither a module object nor a function defined in a cell has
get_environment_info(ns) ==
    LET listed == {n \in DOMAIN ns :
                      /\ n \notin PrivateNames
                      /\ n \notin {"In", "Out", "get_ipython", "exit", "quit"}
                      /\ \/ HasShape(ns[n])
                         \/ n = "session_output_dir"
                         \/ ns[n].type \in {"int", "float", "str", "bool"}}
    IN  [n \in listed |-> ns[n]]

\* an execute_code that keeps no output when the cell failed
after_run_cell_drops_output(ns, r, fmt) ==
    IF r.error_before_exec # "" THEN
        [result |-> [success |-> FALSE, output |-> <<>>,
                     error |-> [prefix |-> "Error before execution",
                                kind |-> r.error_before_exec, name |-> ""],
                     variables |-> NoVariables],
         ns |-> r.ns, ran |-> TRUE]
    ELSE IF r.error_in_exec # "" THEN
        [result |-> [success |-> FALSE, output |-> <<>>,
                     error |-> [prefix |-> "Execution error",
                                kind |-> r.error_in_exec, name |-> ""],
                     variables |-> NoVariables],
         ns |-> r.ns, ran |-> TRUE]
    ELSE IF r.result # NoValue /\ fmt.raises THEN
        [result |-> [success |-> FALSE, output |-> <<>>,
                     error |-> [prefix |-> "Execution exception",
                                kind |-> "ValueError", name |-> ""],
                     variables |-> NoVariables],
         ns |-> r.ns, ran |-> TRUE]
    ELSE
        [result |-> [success |-> TRUE,
                     output |-> IF r.result # NoValue
                                    THEN r.out \o <<fmt.text>>
                                    ELSE r.out,
                     error |-> NoError,
                     variables |-> ImportantNewVars(ns, r.ns)],
         ns |-> r.ns, ran |-> TRUE]
\* execute_code after the safety check: r is what shell.run_cell came back
\* with and fmt the formatted value of the cell
after_run_cell(ns, r, fmt) ==
    IF r.error_before_exec # "" THEN
        [result |-> [success |-> FALSE, output |-> r.out,
                     error |-> [prefix |-> "Error before execution",
                                kind |-> r.error_before_exec, name |-> ""],
                     variables |-> NoVariables],
         ns |-> r.ns, ran |-> TRUE]
    ELSE IF r.error_in_exec # "" THEN
        [result |-> [success |-> FALSE, output |-> r.out,
                     error |-> [prefix |-> "Execution error",
                                kind |-> r.error_in_exec, name |-> ""],
                     variables |-> NoVariables],
         ns |-> r.ns, ran |-> TRUE]
    ELSE IF r.result # NoValue /\ fmt.raises THEN
        [result |-> [success |-> FALSE, output |-> r.out,
                     error |-> [prefix |-> "Execution exception",
                                kind |-> "ValueError", name |-> ""],
                     variables |-> NoVariables],
         ns |-> r.ns, ran |-> TRUE]
    ELSE
        [result |-> [success |-> TRUE,
                     output |-> IF r.result # NoValue
                                    THEN r.out \o <<fmt.text>>
                                    ELSE r.out,
                     error |-> NoError,
                     variables |-> ImportantNewVars(ns, r.ns)],
         ns |-> r.ns, ran |-> TRUE]

\* a refusal that also resets the session
refused_by_check_resets(ns, verdict) ==
    [result |-> [success |-> FALSE, output |-> <<>>,
                 error |-> [prefix |-> "Code safety check failed",
                            kind |-> verdict.kind,
                            name |-> verdict.name],
                 variables |-> NoVariables],
     ns |-> BaselineNs, ran |-> FALSE]
\* execute_code when the safety check refused the fragment
refused_by_check(ns, verdict) ==
    [result |-> [success |-> FALSE, output |-> <<>>,
                 error |-> [prefix |-> "Code safety check failed",
                            kind |-> verdict.kind,
                            name |-> verdict.name],
                 variables |-> NoVariables],
     ns |-> ns, ran |-> FALSE]

\* CodeExecutor.execute_code: the outcome, the namespace afterwards and
\* whether the fragment was handed to shell.run_cell
execute_code(code, ns) ==
    IF ~check_code_safety(code).safe
        THEN refused_by_check(ns, check_code_safety(code))
        ELSE after_run_cell(ns, run_cell(code, ns),
                            format_table_output(run_cell(code, ns).result))

(***************************************************************************)
(* The fragments the engine is driven with.                                *)
(***************************************************************************)
ImportSocket   == Import(<<Alias("socket", "socket")>>)
ImportOs       == Import(<<Alias("os", "os")>>)
ImportOsSubprocess ==
    Import(<<Alias("os", "os"), Alias("subprocess", "subprocess")>>)
FromSocket     == ImportFrom("socket", <<Alias("create_connection", "create_connection")>>)
CallEval       == Expr(Call(Name("eval"), <<Constant(StrValue("1"))>>))
PrintOne       == Expr(Call(Name("print"), <<Constant(StrValue("2"))>>))
PrintOfExec    == Expr(Call(Name("print"),
                            <<Call(Name("exec"), <<Constant(StrValue("1"))>>)>>))
OsOpen         == Expr(Call(Attribute(Name("os"), "open"),
                            <<Constant(StrValue("f"))>>))
AssignDf       == Assign("df", Call(Attribute(Name("pd"), "DataFrame"),
                                    <<Constant(IntConst(3))>>))
AssignX        == Assign("x", Constant(IntValue))
ShowDf         == Expr(Name("df"))
ImportMath     == Import(<<Alias("math", "math")>>)
DefWithOpen    == FunctionDef("f", <<Expr(Call(Name("open"),
                                               <<Constant(StrValue("f"))>>))>>)
IfImportSocket == If(Constant(BoolValue(TRUE)), <<ImportSocket>>)
PlotSavefig    == Expr(Call(Attribute(Name("plt"), "savefig"),
                            <<Constant(StrValue("chart.png"))>>))
WriteJsx       == Assign("f", Call(Name("open"),
                                   <<Constant(StrValue("chart.jsx"))>>))
AssignPd       == Assign("pd", Constant(IntValue))
RaiseValueError == Raise(Call(Name("ValueError"), <<>>))

StmtSet ==
    {ImportSocket, ImportOsSubprocess, FromSocket, CallEval, PrintOne,
     PrintOfExec, OsOpen, AssignDf, AssignX, ShowDf, DefWithOpen,
     IfImportSocket, RaiseValueError, Return, Unparsable, ImportMath}

(***************************************************************************)
(* ExecSpec: one interpreter session driven through the engine's methods.  *)
(***************************************************************************)
ExecInit ==
    /\ user_ns = BaselineNs
    /\ exec_pc = "constructed"
    /\ last_code = <<>>
    /\ last_result = NoResult
    /\ ns_before = BaselineNs
    /\ ran_cell = FALSE

\* the code producer hands over the next line of the fragment it submits
WriteLine(stmt) ==
    /\ Len(IF exec_pc = "composing" THEN last_code ELSE <<>>) < MaxStmts
    /\ last_code' = (IF exec_pc = "composing" THEN last_code ELSE <<>>)
                        \o <<stmt>>
    /\ exec_pc' = "composing"
    /\ last_result' = NoResult
    /\ ran_cell' = FALSE
    /\ ns_before' = user_ns
    /\ UNCHANGED user_ns
    /\ UNCHANGED <<client_vars, agent_vars>>

\* execute_code returns e: the outcome is recorded
Returns(e) ==
    /\ user_ns' = e.ns
    /\ last_result' = e.result
    /\ ran_cell' = e.ran
\* CodeExecutor.execute_code on the fragment submitted
ExecuteCode ==
    /\ exec_pc = "composing"
    /\ Returns(execute_code(last_code, user_ns))
    /\ ns_before' = user_ns
    /\ exec_pc' = "execute_code"
    /\ UNCHANGED last_code
    /\ UNCHANGED <<client_vars, agent_vars>>

\* a host-side operation: no fragment is involved, and ns_before records
\* the namespace it started from
HostOperation ==
    /\ last_code' = <<>>
    /\ last_result' = NoResult
    /\ ran_cell' = FALSE
    /\ ns_before' = user_ns

\* CodeExecutor.set_variable
SetVariable(name, value) ==
    /\ exec_pc # "composing"
    /\ user_ns' = Bind(user_ns, name, value)
    /\ exec_pc' = "set_variable"
    /\ HostOperation
    /\ UNCHANGED <<client_vars, agent_vars>>

\* a reset that spares what set_variable has injected
ResetEnvironmentKeepsInjected ==
    /\ exec_pc # "composing"
    /\ user_ns' = IF "session_output_dir" \in DOMAIN user_ns
                      THEN Bind(setup_common_imports(FreshShellNs),
                                "session_output_dir",
                                user_ns["session_output_dir"])
                      ELSE setup_common_imports(FreshShellNs)
    /\ exec_pc' = "reset_environment"
    /\ HostOperation
    /\ UNCHANGED <<client_vars, agent_vars>>
\* CodeExecutor.reset_environment
ResetEnvironment ==
    /\ exec_pc # "composing"
    /\ user_ns' = setup_common_imports(FreshShellNs)
    /\ exec_pc' = "reset_environment"
    /\ HostOperation
    /\ UNCHANGED <<client_vars, agent_vars>>

\* CodeExecutor.__init__ of a further executor: InteractiveShell.instance()
\* is the one shell of the process
NewExecutor ==
    /\ exec_pc # "composing"
    /\ user_ns' = setup_common_imports(user_ns)
    /\ exec_pc' = "constructed"
    /\ HostOperation
    /\ UNCHANGED <<client_vars, agent_vars>>

(***************************************************************************)
(* ImportSpec: the engine driven with import statements only. A relative   *)
(* import without a module name (from . import x) has node.module None,    *)
(* written "None" here: None is a keyword and names no module.             *)
(***************************************************************************)
ImportOsPath    == Import(<<Alias("os.path", "os")>>)
ImportPyplot    == Import(<<Alias("matplotlib.pyplot", "plt")>>)
ImportJsonOsPath ==
    Import(<<Alias("json", "json"), Alias("os.path", "os")>>)
FromLinearModel ==
    ImportFrom("sklearn.linear_model",
               <<Alias("LinearRegression", "LinearRegression")>>)
FromSklearn     == ImportFrom("sklearn", <<Alias("linear_model", "linear_model")>>)
FromPyplot      == ImportFrom("matplotlib.pyplot", <<Alias("plot", "plot")>>)
FromOsPath      == ImportFrom("os.path", <<Alias("join", "join")>>)
FromRelative    == ImportFrom("None", <<Alias("helpers", "helpers")>>)

ImportStmtSet ==
    {ImportOs, ImportOsPath, ImportPyplot, ImportJsonOsPath, ImportSocket,
     FromLinearModel, FromSklearn, FromPyplot, FromOsPath, FromRelative}

ImportNext ==
    \/ \E stmt \in ImportStmtSet : WriteLine(stmt)
    \/ ExecuteCode

(***************************************************************************)
(* RESILIENT MODEL CLIENT                                                  *)
(***************************************************************************)
content_filter_error_code  == "1301"
content_filter_error_field == "contentFilter"

\* the exceptions an attempt can end with; fields holds the top-level keys
\* of the error body and code the value of error.code in it
ApiException(cls, status, code, fields) ==
    [cls |-> cls, status_code |-> status, code |-> code, fields |-> fields,
     api |-> ""]
NoException   == ApiException("None", 0, "", {})
ConnectionErr == ApiException("APIConnectionError", 0, "", {})
TimeoutErr    == ApiException("APITimeoutError", 0, "", {})
ContentFilter == ApiException("APIStatusError", 400, "1301",
                              {"error", "contentFilter"})
BadRequest    == ApiException("APIStatusError", 400, "1301", {"error"})
RateLimited   == ApiException("APIStatusError", 429, "1302", {"error"})
ServerError   == ApiException("APIStatusError", 500, "1301",
                              {"error", "contentFilter"})
OtherApiErr   == ApiException("APIError", 0, "", {})
NonApiErr     == ApiException("Exception", 0, "", {})

AttemptErrors == {ConnectionErr, TimeoutErr, ContentFilter, BadRequest,
                  RateLimited, ServerError, OtherApiErr, NonApiErr}

\* except (APIConnectionError, APITimeoutError)
IsConnectionError(e) == e.cls \in {"APIConnectionError", "APITimeoutError"}
\* except APIStatusError
IsStatusError(e) == e.cls = "APIStatusError"
\* except APIError: the base class of the three above
IsApiError(e) ==
    e.cls \in {"APIError", "APIStatusError", "APIConnectionError",
               "APITimeoutError"}

\* the content-policy signature, as both methods compute it
is_content_filter_error(e) ==
    /\ e.status_code = 400
    /\ e.code = content_filter_error_code
    /\ content_filter_error_field \in e.fields

\* a constructor that builds the fallback client from a key and a URL alone
HasFallbackWithoutModel(c) == c.fallback_api_key /\ c.fallback_base_url

\* __init__: the fallback client exists only when key, URL and model are given
HasFallback(c) ==
    c.fallback_api_key /\ c.fallback_base_url /\ c.fallback_model_name

ClientConfigs ==
    [fallback_api_key : BOOLEAN, fallback_base_url : BOOLEAN,
     fallback_model_name : BOOLEAN,
     max_retries_primary : 0..MaxRetriesBound,
     max_retries_fallback : 0..MaxRetriesBound]

\* a loop that goes round once more than max_retries + 1 times
attempt_api_call_step_one_more(api_name, att, max_retries, outcome, last) ==
    IF outcome = NoException THEN
        [do |-> "return", exc |-> NoException, last |-> last]
    ELSE LET e == [outcome EXCEPT !.api = api_name]
         IN  IF IsConnectionError(e) \/ IsStatusError(e) THEN
                 IF is_content_filter_error(e) /\ api_name = "Primary"
                     THEN [do |-> "raise", exc |-> e, last |-> last]
                 ELSE IF att <= max_retries
                     THEN [do |-> "sleep", exc |-> NoException, last |-> e]
                     ELSE [do |-> "raise", exc |-> e, last |-> e]
             ELSE [do |-> "raise", exc |-> e, last |-> e]

\* a loop that treats the content-policy error as any other status error
attempt_api_call_step_retries_filter(api_name, att, max_retries, outcome, last) ==
    IF outcome = NoException THEN
        [do |-> "return", exc |-> NoException, last |-> last]
    ELSE LET e == [outcome EXCEPT !.api = api_name]
         IN  IF IsConnectionError(e) \/ IsStatusError(e) THEN
                 IF att < max_retries
                     THEN [do |-> "sleep", exc |-> NoException, last |-> e]
                     ELSE [do |-> "raise", exc |-> e, last |-> e]
             ELSE [do |-> "raise", exc |-> e, last |-> e]

\* a loop that raises the first error it remembered instead of the last
attempt_api_call_step_first_error(api_name, att, max_retries, outcome, last) ==
    IF outcome = NoException THEN
        [do |-> "return", exc |-> NoException, last |-> last]
    ELSE LET e == [outcome EXCEPT !.api = api_name]
             first == IF last = NoException THEN e ELSE last
         IN  IF IsConnectionError(e) \/ IsStatusError(e) THEN
                 IF is_content_filter_error(e) /\ api_name = "Primary"
                     THEN [do |-> "raise", exc |-> e, last |-> last]
                 ELSE IF att < max_retries
                     THEN [do |-> "sleep", exc |-> NoException, last |-> first]
                     ELSE [do |-> "raise", exc |-> first, last |-> first]
             ELSE [do |-> "raise", exc |-> e, last |-> e]

\* a loop whose except APIError clause has no break: the error is retried
\* like a status error
attempt_api_call_step_no_break(api_name, att, max_retries, outcome, last) ==
    IF outcome = NoException THEN
        [do |-> "return", exc |-> NoException, last |-> last]
    ELSE LET e == [outcome EXCEPT !.api = api_name]
         IN  IF is_content_filter_error(e) /\ IsStatusError(e)
                /\ api_name = "Primary"
                 THEN [do |-> "raise", exc |-> e, last |-> last]
             ELSE IF IsApiError(e) THEN
                 IF att < max_retries
                     THEN [do |-> "sleep", exc |-> NoException, last |-> e]
                     ELSE [do |-> "raise", exc |-> e, last |-> e]
             ELSE [do |-> "raise", exc |-> e, last |-> last]

\* one iteration of the loop of _attempt_api_call, given how the request
\* ended: what the loop does next
\*   "return" the completion, "sleep" and go round again, or "raise" exc
attempt_api_call_step(api_name, att, max_retries, outcome, last) ==
    IF outcome = NoException THEN
        [do |-> "return", exc |-> NoException, last |-> last]
    ELSE LET e == [outcome EXCEPT !.api = api_name]
         IN  IF IsConnectionError(e) THEN
                 IF att < max_retries
                     THEN [do |-> "sleep", exc |-> NoException, last |-> e]
                     ELSE [do |-> "raise", exc |-> e, last |-> e]
             ELSE IF IsStatusError(e) THEN
                 IF is_content_filter_error(e) /\ api_name = "Primary"
                     THEN [do |-> "raise", exc |-> e, last |-> last]
                 ELSE IF att < max_retries
                     THEN [do |-> "sleep", exc |-> NoException, last |-> e]
                     ELSE [do |-> "raise", exc |-> e, last |-> e]
             ELSE IF IsApiError(e) THEN
                 [do |-> "raise", exc |-> e, last |-> e]
             ELSE [do |-> "raise", exc |-> e, last |-> last]

\* the except clauses of chat_completions_create around the primary phase:
\* TRUE when the fallback phase is entered, FALSE when the error is raised
fails_over(c, e_primary) ==
    IF IsStatusError(e_primary)
        THEN is_content_filter_error(e_primary) /\ HasFallback(c)
    ELSE IF IsApiError(e_primary) THEN HasFallback(c)
    ELSE FALSE

NoCallResult == [status |-> "none", api |-> "", attempt |-> 0,
                 error |-> NoException]

ClientInit ==
    /\ cfg \in ClientConfigs
    /\ cpc = "idle"
    /\ attempt = 0
    /\ last_exception = NoException
    /\ in_flight = {}
    /\ p_attempts = 0
    /\ f_attempts = 0
    /\ p_log = <<>>
    /\ f_log = <<>>
    /\ sleeps = <<>>
    /\ call_result = NoCallResult

ApiOf(position) == IF position \in {"p_send", "p_wait", "p_sleep"}
                       THEN "Primary" ELSE "Fallback"
MaxRetriesOf(c, api_name) == IF api_name = "Primary"
                                 THEN c.max_retries_primary
                                 ELSE c.max_retries_fallback

\* chat_completions_create is entered
StartCall ==
    /\ cpc = "idle"
    /\ cpc' = "p_send"
    /\ attempt' = 0
    /\ last_exception' = NoException
    /\ UNCHANGED <<cfg, in_flight, p_attempts, f_attempts, p_log, f_log,
                   sleeps, call_result>>
    /\ UNCHANGED <<exec_vars, agent_vars>>

\* a client that sends the request to the fallback along with the primary's
requests_sent_raced(position, c) ==
    IF position = "p_send" /\ HasFallback(c)
        THEN {"Primary", "Fallback"}
        ELSE {ApiOf(position)}
\* the requests an iteration of _attempt_api_call sends: the one to the
\* client it was called with
requests_sent(position, c) == {ApiOf(position)}

\* await client.chat.completions.create(...): the request goes out
SendRequest ==
    /\ cpc \in {"p_send", "f_send"}
    /\ in_flight' = in_flight \cup requests_sent(cpc, cfg)
    /\ p_attempts' = IF cpc = "p_send" THEN p_attempts + 1 ELSE p_attempts
    /\ f_attempts' = IF cpc = "f_send" THEN f_attempts + 1 ELSE f_attempts
    /\ cpc' = IF cpc = "p_send" THEN "p_wait" ELSE "f_wait"
    /\ UNCHANGED <<cfg, attempt, last_exception, p_log, f_log, sleeps,
                   call_result>>
    /\ UNCHANGED <<exec_vars, agent_vars>>

\* how an attempt ended, as the endpoint answered it
EndingOf(outcome) ==
    IF outcome = NoException THEN "completion"
    ELSE IF outcome = ContentFilter THEN "content policy"
    ELSE IF outcome = NonApiErr THEN "other exception"
    ELSE IF outcome.cls = "APIStatusError" THEN "status error"
    ELSE IF outcome.cls = "APIError" THEN "api error"
    ELSE "connection error"

\* the awaited request ends with a completion (NoException) or an exception;
\* the rest of the loop iteration and of chat_completions_create follows
RequestEnds(outcome) ==
    /\ cpc \in {"p_wait", "f_wait"}
    /\ LET api_name == ApiOf(cpc)
           step == attempt_api_call_step(api_name, attempt,
                                         MaxRetriesOf(cfg, api_name),
                                         outcome, last_exception)
       IN  /\ in_flight' = in_flight \ {api_name}
           /\ last_exception' =
                  IF step.do = "raise" /\ api_name = "Primary"
                     /\ fails_over(cfg, step.exc)
                      THEN NoException   \* _attempt_api_call starts afresh
                      ELSE step.last
           /\ IF step.do = "return" THEN
                  /\ cpc' = "returned"
                  /\ call_result' = [status |-> "returned", api |-> api_name,
                                     attempt |-> attempt + 1,
                                     error |-> NoException]
                  /\ UNCHANGED <<attempt, sleeps>>
              ELSE IF step.do = "sleep" THEN
                  /\ cpc' = IF api_name = "Primary" THEN "p_sleep" ELSE "f_sleep"
                  /\ sleeps' = Append(sleeps, [api |-> api_name,
                                               factor |-> attempt + 1])
                  /\ UNCHANGED <<attempt, call_result>>
              ELSE IF api_name = "Primary" /\ fails_over(cfg, step.exc) THEN
                  /\ cpc' = "f_send"
                  /\ attempt' = 0
                  /\ UNCHANGED <<sleeps, call_result>>
              ELSE
                  /\ cpc' = "raised"
                  /\ call_result' = [status |-> "raised", api |-> api_name,
                                     attempt |-> attempt + 1,
                                     error |-> step.exc]
                  /\ UNCHANGED <<attempt, sleeps>>
    /\ p_log' = IF cpc = "p_wait" THEN Append(p_log, EndingOf(outcome))
                                   ELSE p_log
    /\ f_log' = IF cpc = "f_wait" THEN Append(f_log, EndingOf(outcome))
                                   ELSE f_log
    /\ UNCHANGED <<cfg, p_attempts, f_attempts>>
    /\ UNCHANGED <<exec_vars, agent_vars>>

\* a loop that goes round again without advancing its attempt counter
SleepEndsSameAttempt ==
    /\ cpc \in {"p_sleep", "f_sleep"}
    /\ attempt' = attempt
    /\ cpc' = IF cpc = "p_sleep" THEN "p_send" ELSE "f_send"
    /\ UNCHANGED <<cfg, last_exception, in_flight, p_attempts, f_attempts,
                   p_log, f_log, sleeps, call_result>>
    /\ UNCHANGED <<exec_vars, agent_vars>>

\* await asyncio.sleep(...) returns and the loop goes round again
SleepEnds ==
    /\ cpc \in {"p_sleep", "f_sleep"}
    /\ attempt' = attempt + 1
    /\ cpc' = IF cpc = "p_sleep" THEN "p_send" ELSE "f_send"
    /\ UNCHANGED <<cfg, last_exception, in_flight, p_attempts, f_attempts,
                   p_log, f_log, sleeps, call_result>>
    /\ UNCHANGED <<exec_vars, agent_vars>>

ClientNext ==
    \/ StartCall
    \/ SendRequest
    \/ \E outcome \in AttemptErrors \cup {NoException} : RequestEnds(outcome)
    \/ SleepEnds

(***************************************************************************)
(* RESPONSE PARSER                                                         *)
(* A response is a sequence of symbols: the fence marker ```, the tag      *)
(* words that may follow it, lines of a YAML mapping, lines of Python      *)
(* source and prose. find, slicing and yaml.safe_load work on that         *)
(* sequence as the code works on the characters.                           *)
(***************************************************************************)
NoText == [kind |-> "none", text |-> <<>>]
Text(fragment) == [kind |-> "str", text |-> fragment]
Number == [kind |-> "int", text |-> <<>>]
NoFigures == [kind |-> "none", items |-> <<>>]

Sym(sym, word, val, code, figs) ==
    [sym |-> sym, word |-> word, val |-> val, code |-> code, figs |-> figs]
Fence      == Sym("fence", "", "", NoText, NoFigures)
Word(w)    == Sym("word", w, "", NoText, NoFigures)
Prose      == Sym("prose", "", "", NoText, NoFigures)
Src(stmt)  == Sym("src", "", "", Text(<<stmt>>), NoFigures)
KV(key, val)     == Sym("kv", key, val, NoText, NoFigures)
KVCode(code)     == Sym("kv", "code", "", code, NoFigures)
KVFigures(figs)  == Sym("kv", "figures_to_collect", "", NoText, figs)

\* '```yaml' in response, '```python' in response
TagAt(response, i, tag) ==
    /\ i + 1 <= Len(response)
    /\ response[i] = Fence
    /\ response[i + 1] = Word(tag)
HasTag(response, tag) == \E i \in 1..Len(response) : TagAt(response, i, tag)
\* '```' in response
HasFence(response) == \E i \in 1..Len(response) : response[i] = Fence

\* response.find('```' + tag) + len('```' + tag): the first position after it
AfterTag(response, tag) ==
    2 + CHOOSE i \in 1..Len(response) :
            /\ TagAt(response, i, tag)
            /\ \A j \in 1..(i - 1) : ~TagAt(response, j, tag)
\* response.find('```') + 3
AfterFence(response) ==
    1 + CHOOSE i \in 1..Len(response) :
            /\ response[i] = Fence
            /\ \A j \in 1..(i - 1) : response[j] # Fence
\* response.find('```', start): 0 stands for Python's -1 (not found)
FindFence(response, start) ==
    IF \E i \in start..Len(response) : response[i] = Fence
        THEN CHOOSE i \in start..Len(response) :
                 /\ response[i] = Fence
                 /\ \A j \in start..(i - 1) : response[j] # Fence
        ELSE 0
\* response[start:end]; with end = -1 the slice stops before the last symbol
Slice(response, start, end) ==
    IF end = 0 THEN SubSeq(response, start, Len(response) - 1)
               ELSE SubSeq(response, start, end - 1)

\* the text both parsers hand to yaml.safe_load
YamlContent(response) ==
    IF HasTag(response, "yaml") THEN
        Slice(response, AfterTag(response, "yaml"),
              FindFence(response, AfterTag(response, "yaml")))
    ELSE IF HasFence(response) THEN
        Slice(response, AfterFence(response),
              FindFence(response, AfterFence(response)))
    ELSE response

\* yaml.safe_load: nothing gives None, mapping lines give a dict (a later
\* key overrides an earlier one), scalar lines give a str, a mixture or a
\* stray fence is a YAMLError
LastOf(content, key) ==
    content[CHOOSE i \in 1..Len(content) :
                /\ content[i].word = key
                /\ \A j \in (i + 1)..Len(content) : content[j].word # key]
safe_load(content) ==
    IF content = <<>> THEN [kind |-> "none", keys |-> {}, content |-> <<>>]
    ELSE IF \A i \in 1..Len(content) : content[i].sym = "kv"
        THEN [kind |-> "dict",
              keys |-> {content[i].word : i \in 1..Len(content)},
              content |-> content]
    ELSE IF \A i \in 1..Len(content) : content[i].sym \in {"word", "prose", "src"}
        THEN [kind |-> "str", keys |-> {}, content |-> content]
    ELSE [kind |-> "error", keys |-> {}, content |-> <<>>]

EmptyDict == [kind |-> "dict", keys |-> {}, content |-> <<>>]

\* LLMHelper.parse_yaml_response: any exception gives {}
parse_yaml_response(response) ==
    IF safe_load(YamlContent(response)).kind = "error"
        THEN EmptyDict
        ELSE safe_load(YamlContent(response))

\* a line of a response read as Python source
AsPython(symbol) ==
    IF symbol.sym = "src" THEN symbol.code.text[1]
    ELSE IF symbol.sym = "word" THEN Expr(Name(symbol.word))
    ELSE IF symbol.sym = "kv" /\ symbol.word = "action"
        THEN AnnAssign(symbol.word, symbol.val)
    ELSE Unparsable
SourceOf(content) == Text([i \in 1..Len(content) |-> AsPython(content[i])])

\* an extraction that falls back to the whole response as source
extract_code_whole_response(response) ==
    LET yaml_data == safe_load(YamlContent(response))
    IN  IF yaml_data.kind = "dict" /\ "code" \in yaml_data.keys
            THEN LastOf(yaml_data.content, "code").code
        ELSE IF HasTag(response, "python") THEN
            IF FindFence(response, AfterTag(response, "python")) # 0
                THEN SourceOf(Slice(response, AfterTag(response, "python"),
                                    FindFence(response,
                                              AfterTag(response, "python"))))
                ELSE NoText
        ELSE IF HasFence(response) THEN
            IF FindFence(response, AfterFence(response)) # 0
                THEN SourceOf(Slice(response, AfterFence(response),
                                    FindFence(response, AfterFence(response))))
                ELSE NoText
        ELSE SourceOf(response)
\* extract_code_from_response: NoText stands for None
extract_code_from_response(response) ==
    LET yaml_data == safe_load(YamlContent(response))
    IN  IF yaml_data.kind = "dict" /\ "code" \in yaml_data.keys
            THEN LastOf(yaml_data.content, "code").code
        ELSE IF HasTag(response, "python") THEN
            IF FindFence(response, AfterTag(response, "python")) # 0
                THEN SourceOf(Slice(response, AfterTag(response, "python"),
                                    FindFence(response,
                                              AfterTag(response, "python"))))
                ELSE NoText
        ELSE IF HasFence(response) THEN
            IF FindFence(response, AfterFence(response)) # 0
                THEN SourceOf(Slice(response, AfterFence(response),
                                    FindFence(response, AfterFence(response))))
                ELSE NoText
        ELSE NoText

(***************************************************************************)
(* AGENT CONTROL LOOP                                                      *)
(***************************************************************************)
NoProcessResult ==
    [action |-> "", code |-> NoText, result |-> NoResult,
     collected_figures |-> <<>>, final_report |-> "", continue |-> TRUE]

Truthy(code) == code.kind = "int" \/ (code.kind = "str" /\ code.text # <<>>)

\* yaml_data.get(key, default) for the keys whose value is a plain string
GetVal(yaml_data, key, default) ==
    IF key \in yaml_data.keys THEN LastOf(yaml_data.content, key).val
                              ELSE default

\* a handler that reports the final action without stopping the loop
handle_analysis_complete_continues(response, yaml_data, ns) ==
    [raised |-> FALSE, ns |-> ns, executed |-> FALSE, ran |-> FALSE,
     pr |-> [NoProcessResult EXCEPT
                !.action = "analysis_complete",
                !.final_report =
                    GetVal(yaml_data, "final_report",
                           "Analysis completed, no final report"),
                !.continue = TRUE]]
\* DataAnalysisAgent._handle_analysis_complete
handle_analysis_complete(response, yaml_data, ns) ==
    [raised |-> FALSE, ns |-> ns, executed |-> FALSE, ran |-> FALSE,
     pr |-> [NoProcessResult EXCEPT
                !.action = "analysis_complete",
                !.final_report =
                    GetVal(yaml_data, "final_report",
                           "Analysis completed, no final report"),
                !.continue = FALSE]]

\* f'figure_{figure_number}.png', the default of the filename; 0 stands for
\* a figure_number that is None
default_filename(figure_number) ==
    IF figure_number = 0 THEN "figure_None.png"
    ELSE IF figure_number = 1 THEN "figure_1.png"
    ELSE IF figure_number = 2 THEN "figure_2.png"
    ELSE "figure_n.png"
\* figure_info.get(key, default) for the keys whose value is a string
figure_get(figure_info, key, default) ==
    IF key \in figure_info.keys THEN figure_info[key] ELSE default
\* the record _handle_collect_figures makes of one descriptor: the five
\* fields it reads, with their defaults. os.path.exists(file_path) only
\* chooses the line that is printed
collect_figure(figure_info) ==
    [figure_number |-> IF "figure_number" \in figure_info.keys
                           THEN figure_info.figure_number ELSE 0,
     filename |-> figure_get(figure_info, "filename",
                     default_filename(IF "figure_number" \in figure_info.keys
                                          THEN figure_info.figure_number
                                          ELSE 0)),
     file_path |-> figure_get(figure_info, "file_path", ""),
     description |-> figure_get(figure_info, "description", ""),
     analysis |-> figure_get(figure_info, "analysis", "")]

\* a handler that records only the figures that come with a file path
handle_collect_figures_with_path_only(response, yaml_data, ns) ==
    LET figs == IF "figures_to_collect" \in yaml_data.keys
                    THEN LastOf(yaml_data.content, "figures_to_collect").figs
                    ELSE [kind |-> "list", items |-> <<>>]
    IN  IF figs.kind # "list"
           \/ \E i \in 1..Len(figs.items) : ~figs.items[i].is_dict
            THEN [raised |-> TRUE, ns |-> ns, executed |-> FALSE, ran |-> FALSE,
                  pr |-> NoProcessResult]
            ELSE [raised |-> FALSE, ns |-> ns, executed |-> FALSE, ran |-> FALSE,
                  pr |-> [NoProcessResult EXCEPT
                             !.action = "collect_figures",
                             !.collected_figures =
                                 SelectSeq([i \in 1..Len(figs.items) |->
                                               collect_figure(figs.items[i])],
                                           LAMBDA f : f.file_path # "")]]
\* a handler that takes a missing list for an empty one and skips the
\* elements that are not mappings
handle_collect_figures_lenient(response, yaml_data, ns) ==
    LET figs == IF "figures_to_collect" \in yaml_data.keys
                    THEN LastOf(yaml_data.content, "figures_to_collect").figs
                    ELSE [kind |-> "list", items |-> <<>>]
        dicts == SelectSeq(figs.items, LAMBDA f : f.is_dict)
    IN  [raised |-> FALSE, ns |-> ns, executed |-> FALSE, ran |-> FALSE,
         pr |-> [NoProcessResult EXCEPT
                    !.action = "collect_figures",
                    !.collected_figures =
                        [i \in 1..Len(dicts) |-> collect_figure(dicts[i])]]]
\* DataAnalysisAgent._handle_collect_figures: iterating a missing value or
\* calling .get on an element that is not a mapping raises
handle_collect_figures(response, yaml_data, ns) ==
    LET figs == IF "figures_to_collect" \in yaml_data.keys
                    THEN LastOf(yaml_data.content, "figures_to_collect").figs
                    ELSE [kind |-> "list", items |-> <<>>]
    IN  IF figs.kind # "list"
           \/ \E i \in 1..Len(figs.items) : ~figs.items[i].is_dict
            THEN [raised |-> TRUE, ns |-> ns, executed |-> FALSE, ran |-> FALSE,
                  pr |-> NoProcessResult]
            ELSE [raised |-> FALSE, ns |-> ns, executed |-> FALSE, ran |-> FALSE,
                  pr |-> [NoProcessResult EXCEPT
                             !.action = "collect_figures",
                             !.collected_figures =
                                 [i \in 1..Len(figs.items) |->
                                     collect_figure(figs.items[i])]]]

\* DataAnalysisAgent._handle_generate_code; execute_code raises on a code
\* value that is not text (ast.parse refuses it with a TypeError)
\* the result of _handle_generate_code when execute_code returned e
code_executed(code, e) ==
    [raised |-> FALSE, ns |-> e.ns, executed |-> TRUE, ran |-> e.ran,
     pr |-> [NoProcessResult EXCEPT
                !.action = "generate_code",
                !.code = code,
                !.result = e.result]]
\* _handle_generate_code once the code to run is known
run_code(code, ns) ==
    IF ~Truthy(code) THEN
        [raised |-> FALSE, ns |-> ns, executed |-> FALSE, ran |-> FALSE,
         pr |-> [NoProcessResult EXCEPT !.action = "invalid_response"]]
    ELSE IF code.kind # "str" THEN
        [raised |-> TRUE, ns |-> ns, executed |-> FALSE, ran |-> FALSE,
         pr |-> NoProcessResult]
    ELSE code_executed(code, execute_code(code.text, ns))
\* code = yaml_data.get('code', ''), else extract_code_from_response
code_of(response, from_yaml) ==
    IF Truthy(from_yaml) THEN from_yaml
    ELSE extract_code_from_response(response)
handle_generate_code(response, yaml_data, ns) ==
    run_code(code_of(response,
                     IF "code" \in yaml_data.keys
                         THEN LastOf(yaml_data.content, "code").code
                         ELSE Text(<<>>)),
             ns)

\* a dispatch that answers an unknown action with invalid_response at once
DispatchUnknownIsInvalid(action, response, yaml_data, ns) ==
    IF action = "analysis_complete"
        THEN handle_analysis_complete(response, yaml_data, ns)
    ELSE IF action = "collect_figures"
        THEN handle_collect_figures(response, yaml_data, ns)
    ELSE IF action = "generate_code"
        THEN handle_generate_code(response, yaml_data, ns)
    ELSE run_code(NoText, ns)
\* the dispatch of _process_response on the action field
Dispatch(action, response, yaml_data, ns) ==
    IF action = "analysis_complete"
        THEN handle_analysis_complete(response, yaml_data, ns)
    ELSE IF action = "collect_figures"
        THEN handle_collect_figures(response, yaml_data, ns)
    ELSE handle_generate_code(response, yaml_data, ns)

\* DataAnalysisAgent._process_response: a response that is not a mapping
\* (.get raises) or a handler that raises is handled again as generate_code
\* with an empty mapping; what that second call raises leaves the method
\* the except clause of _process_response, first being what the handler of
\* the action came back with
handled(response, ns, yaml_data, first) ==
    IF yaml_data.kind = "dict" /\ ~first.raised THEN first
    ELSE handle_generate_code(response, EmptyDict, ns)
\* _process_response after the response was parsed to yaml_data
dispatched(response, ns, yaml_data) ==
    handled(response, ns, yaml_data,
            Dispatch(GetVal(yaml_data, "action", "generate_code"),
                     response, yaml_data, ns))
process_response(response, ns) ==
    dispatched(response, ns, parse_yaml_response(response))

\* format_execution_result: the lines of the feedback
format_execution_result(result) ==
    IF result.success
        THEN [header |-> "Code execution successful", output |-> result.output,
              variables |-> result.variables, error |-> NoError]
        ELSE [header |-> "Code execution failed", output |-> result.output,
              variables |-> NoVariables, error |-> result.error]

NoFeedback == [header |-> "", output |-> <<>>, variables |-> NoVariables,
               error |-> NoError]
Entry(role, kind, response, feedback, count) ==
    [role |-> role, kind |-> kind, response |-> response,
     feedback |-> feedback, count |-> count]
InitialPrompt == Entry("user", "User requirement", <<>>, NoFeedback, 0)

\* LLMHelper.async_call: the text of the completion, "" when the client raised
llm_call(outcome) == IF outcome.ok THEN outcome.text ELSE <<>>

(***************************************************************************)
(* The responses the model is made to give.                                *)
(***************************************************************************)
Figure(number, path) ==
    [is_dict |-> TRUE,
     keys |-> {"figure_number", "filename", "file_path", "description",
               "analysis"},
     figure_number |-> number, filename |-> "chart.png",
     file_path |-> path, description |-> "d", analysis |-> "a"]
\* a descriptor that gives the number of the figure and nothing else
FigureBare(number) ==
    [is_dict |-> TRUE, keys |-> {"figure_number"},
     figure_number |-> number, filename |-> "",
     file_path |-> "", description |-> "", analysis |-> ""]
\* an element of the figure list that is a plain string, not a mapping
FigureName ==
    [is_dict |-> FALSE, keys |-> {}, figure_number |-> 0, filename |-> "",
     file_path |-> "", description |-> "", analysis |-> ""]
YamlBlock(lines) == <<Fence, Word("yaml")>> \o lines \o <<Fence>>

RespComplete ==
    YamlBlock(<<KV("action", "analysis_complete"), KV("final_report", "report")>>)
RespCodeOk ==
    YamlBlock(<<KV("action", "generate_code"), KVCode(Text(<<AssignDf>>))>>)
RespCodeUnsafe ==
    YamlBlock(<<KV("action", "generate_code"), KVCode(Text(<<ImportSocket>>))>>)
RespCodeRaises ==
    YamlBlock(<<KV("action", "generate_code"),
                KVCode(Text(<<AssignX, RaiseValueError>>))>>)
RespCodeNumber ==
    YamlBlock(<<KV("action", "generate_code"), KVCode(Number)>>)
RespFigures ==
    YamlBlock(<<KV("action", "collect_figures"),
                KVFigures([kind |-> "list",
                           items |-> <<Figure(1, "missing.png"),
                                       FigureBare(2)>>])>>)
\* figures_to_collect with no value (None), in a yaml block
RespFiguresNoList ==
    YamlBlock(<<KV("action", "collect_figures"), KVFigures(NoFigures)>>)
\* a list of file names instead of mappings, in a response without a fence
RespFiguresNames ==
    <<KV("action", "collect_figures"),
      KVFigures([kind |-> "list", items |-> <<FigureName>>])>>
RespNoCode    == YamlBlock(<<KV("action", "generate_code")>>)
\* an action that is none of the three, with the fields of the three
RespUnknown ==
    YamlBlock(<<KV("action", "summarize"), KV("final_report", "report"),
                KVFigures([kind |-> "list", items |-> <<FigureBare(1)>>]),
                KVCode(Text(<<PrintOne>>))>>)
\* a mapping without an action field
RespNoAction ==
    YamlBlock(<<KV("final_report", "report"), KVCode(Text(<<AssignX>>))>>)
RespProse     == <<Prose>>
RespPython    == <<Prose, Fence, Word("python"), Src(AssignX), Fence>>
RespUnclosed  == <<Fence, Word("python"), Src(AssignX)>>
RespUnfencedComplete ==
    <<KV("action", "analysis_complete"), KV("final_report", "report")>>
RespUnfencedOther == <<KV("action", "summarize")>>
\* a yaml block the YAML parser rejects: a mapping line, then a line of text
RespMalformed == YamlBlock(<<KV("action", "analysis_complete"), Prose>>)

AgentResponses ==
    {RespComplete, RespCodeOk, RespCodeUnsafe, RespCodeRaises, RespCodeNumber,
     RespFigures, RespNoCode, RespUnknown, RespNoAction, RespProse, RespPython,
     RespUnclosed, RespUnfencedComplete, RespUnfencedOther, RespMalformed,
     RespFiguresNoList, RespFiguresNames}

\* what self.llm.call can come back with: a completion, or the client raising
LLMOutcomes ==
    {[ok |-> TRUE, text |-> r] : r \in AgentResponses}
        \cup {[ok |-> FALSE, text |-> <<>>]}
\* what the call of the final-report pass can come back with: a response of
\* each kind _generate_final_report tells apart (a mapping with and without
\* analysis_complete, free text, a block the parser rejects), or a failure
ReportOutcomes ==
    {[ok |-> TRUE, text |-> r] :
        r \in {RespComplete, RespUnfencedComplete, RespCodeOk, RespProse,
               RespPython, RespMalformed}}
        \cup {[ok |-> FALSE, text |-> <<>>]}

(***************************************************************************)
(* Spec: DataAnalysisAgent.analyze.                                        *)
(***************************************************************************)
\* no chart conversion has begun: chart is the position in the list of
\* _find_all_matplotlib_codes, attempt the loop variable of
\* _convert_matplotlib_to_recharts, refused the attempts of this chart the
\* safety check turned down, submitted whether the latest attempt reached
\* execute_code, result what the call returned for this chart
NoConversion == [chart |-> 0, attempt |-> 0, refused |-> 0,
                 submitted |-> FALSE, result |-> "none"]

NoReturn == [total_rounds |-> -1, analysis_results |-> <<>>,
             conversation_history |-> <<>>, final_report |-> "",
             report_source |-> "", report_raw |-> <<>>,
             report_failed |-> FALSE, report_response |-> <<>>]

AgentInit ==
    /\ max_rounds \in 0..MaxRoundsBound
    /\ current_round = 0
    /\ conversation_history = <<>>
    /\ analysis_results = <<>>
    /\ pc = "constructed"
    /\ loop_calls = 0
    /\ report_calls = 0
    /\ round_log = <<>>
    /\ returned = NoReturn
    /\ conversion = NoConversion

\* analyze, up to the round loop: the state is reset, a CodeExecutor is
\* built on the shell of the process, session_output_dir is injected and
\* the initial prompt is logged
AnalyzeStart ==
    /\ pc = "constructed"
    /\ conversation_history' = <<InitialPrompt>>
    /\ analysis_results' = <<>>
    /\ current_round' = 0
    /\ user_ns' = Bind(setup_common_imports(user_ns), "session_output_dir",
                       StrValue("outputs/session"))
    /\ exec_pc' = "set_variable"
    /\ HostOperation
    /\ pc' = "loop"
    /\ UNCHANGED <<max_rounds, loop_calls, report_calls, round_log, returned,
                   conversion>>
    /\ UNCHANGED client_vars

\* a loop test that lets one round too many through
LoopGuardOffByOne(round, max) == round <= max
\* while self.current_round < self.max_rounds
LoopGuard(round, max) == round < max

\* a loop body that forgets to count the round
NextRoundForgotten(round) == round
\* self.current_round += 1
NextRound(round) == round + 1

\* a loop body that logs the assistant turn before it looks at continue
RoundEntriesAssistantFirst(response, p) ==
    IF p.raised THEN
        <<Entry("user", "Error occurred", <<>>, NoFeedback, 0)>>
    ELSE IF p.pr.action = "generate_code" THEN
        <<Entry("assistant", "response", response, NoFeedback, 0),
          Entry("user", "Code execution feedback", <<>>,
                format_execution_result(p.pr.result), 0)>>
    ELSE IF p.pr.action = "collect_figures" THEN
        <<Entry("assistant", "response", response, NoFeedback, 0),
          Entry("user", "Figure collection feedback", <<>>, NoFeedback,
                Len(p.pr.collected_figures))>>
    ELSE <<Entry("assistant", "response", response, NoFeedback, 0)>>
\* what a round appends to conversation_history
RoundEntries(response, p) ==
    IF p.raised THEN
        <<Entry("user", "Error occurred", <<>>, NoFeedback, 0)>>
    ELSE IF ~p.pr.continue THEN <<>>
    ELSE IF p.pr.action = "generate_code" THEN
        <<Entry("assistant", "response", response, NoFeedback, 0),
          Entry("user", "Code execution feedback", <<>>,
                format_execution_result(p.pr.result), 0)>>
    ELSE IF p.pr.action = "collect_figures" THEN
        <<Entry("assistant", "response", response, NoFeedback, 0),
          Entry("user", "Figure collection feedback", <<>>, NoFeedback,
                Len(p.pr.collected_figures))>>
    ELSE <<Entry("assistant", "response", response, NoFeedback, 0)>>

\* a loop body that records a result for every round that continues
RoundResultsEveryRound(round, response, p) ==
    IF p.raised \/ ~p.pr.continue THEN <<>>
    ELSE IF p.pr.action = "collect_figures" THEN
        <<[round |-> round, action |-> "collect_figures", code |-> NoText,
           result |-> NoResult,
           collected_figures |-> p.pr.collected_figures,
           response |-> response]>>
    ELSE <<[round |-> round, action |-> "", code |-> p.pr.code,
            result |-> p.pr.result, collected_figures |-> <<>>,
            response |-> response]>>
\* a loop body that records only the executions that succeeded
RoundResultsSuccessOnly(round, response, p) ==
    IF p.raised \/ ~p.pr.continue THEN <<>>
    ELSE IF p.pr.action = "generate_code" /\ p.pr.result.success THEN
        <<[round |-> round, action |-> "", code |-> p.pr.code,
           result |-> p.pr.result, collected_figures |-> <<>>,
           response |-> response]>>
    ELSE IF p.pr.action = "collect_figures" THEN
        <<[round |-> round, action |-> "collect_figures", code |-> NoText,
           result |-> NoResult,
           collected_figures |-> p.pr.collected_figures,
           response |-> response]>>
    ELSE <<>>
\* what a round appends to analysis_results
RoundResults(round, response, p) ==
    IF p.raised \/ ~p.pr.continue THEN <<>>
    ELSE IF p.pr.action = "generate_code" THEN
        <<[round |-> round, action |-> "", code |-> p.pr.code,
           result |-> p.pr.result, collected_figures |-> <<>>,
           response |-> response]>>
    ELSE IF p.pr.action = "collect_figures" THEN
        <<[round |-> round, action |-> "collect_figures", code |-> NoText,
           result |-> NoResult,
           collected_figures |-> p.pr.collected_figures,
           response |-> response]>>
    ELSE <<>>

\* a loop body without the except clause: what a round raises leaves analyze
after_round_escapes(p) ==
    IF p.raised THEN "raised"
    ELSE IF ~p.pr.continue THEN "final" ELSE "loop"
\* a loop that gives up at the first round that is invalid or raises
after_round_gives_up(p) ==
    IF p.raised THEN "final"
    ELSE IF ~p.pr.continue \/ p.pr.action = "invalid_response" THEN "final"
    ELSE "loop"
\* where control goes after the body of a round: the break on a result that
\* says not to continue, otherwise (the except clause included) the loop test
after_round(p) ==
    IF ~p.raised /\ ~p.pr.continue THEN "final" ELSE "loop"

\* a log that keeps the initial prompt and the turns of the latest round only
append_entries_windowed(history, entries) ==
    IF entries = <<>> THEN history ELSE <<history[1]>> \o entries
\* self.conversation_history.append(...), once for each entry of the round
append_entries(history, entries) == history \o entries

\* one pass through the body of the round loop
\* the rest of the loop body once _process_response came back with p
Processed(outcome, response, p) ==
    /\ user_ns' = p.ns
    /\ exec_pc' = IF p.executed THEN "execute_code" ELSE exec_pc
    /\ last_code' = IF p.executed THEN p.pr.code.text ELSE last_code
    /\ last_result' = IF p.executed THEN p.pr.result ELSE last_result
    /\ ns_before' = IF p.executed THEN user_ns ELSE ns_before
    /\ ran_cell' = IF p.executed THEN p.ran ELSE ran_cell
    /\ conversation_history' =
           append_entries(conversation_history, RoundEntries(response, p))
    /\ analysis_results' =
           analysis_results \o RoundResults(current_round', response, p)
    /\ round_log' = Append(round_log,
           [round |-> current_round',
            response |-> response,
            action |-> IF p.raised THEN "error" ELSE p.pr.action,
            raised |-> p.raised,
            executed |-> p.executed,
            client_failed |-> ~outcome.ok,
            stop |-> ~p.raised /\ ~p.pr.continue])
    /\ pc' = after_round(p)
Round(outcome) ==
    /\ pc = "loop"
    /\ LoopGuard(current_round, max_rounds)
    /\ loop_calls <= MaxRoundsBound     \* the cap of the history counter
    /\ current_round' = NextRound(current_round)
    /\ loop_calls' = loop_calls + 1
    /\ Processed(outcome, llm_call(outcome),
                 process_response(llm_call(outcome), user_ns))
    /\ UNCHANGED <<max_rounds, report_calls, returned, conversion>>
    /\ UNCHANGED client_vars

\* an analyze that returns at once when the budget is used up, without the
\* final-report pass
LoopExitWithoutReport ==
    /\ pc = "loop"
    /\ ~LoopGuard(current_round, max_rounds)
    /\ pc' = "returned"
    /\ returned' = [NoReturn EXCEPT !.total_rounds = current_round]
    /\ UNCHANGED <<max_rounds, current_round, conversation_history,
                   analysis_results, loop_calls, report_calls, round_log,
                   conversion>>
    /\ UNCHANGED <<exec_vars, client_vars>>
\* the loop condition fails: the round budget is used up
LoopExit ==
    /\ pc = "loop"
    /\ ~LoopGuard(current_round, max_rounds)
    /\ pc' = "final"
    /\ UNCHANGED <<max_rounds, current_round, conversation_history,
                   analysis_results, loop_calls, report_calls, round_log,
                   returned, conversion>>
    /\ UNCHANGED <<exec_vars, client_vars>>

\* the report text _generate_final_report takes from the model's response
final_report_content(response) ==
    LET yaml_data == parse_yaml_response(response)
    IN  IF yaml_data.kind # "dict"
            THEN [source |-> "raw response", text |-> "", raw |-> response]
        ELSE IF GetVal(yaml_data, "action", "") = "analysis_complete"
            THEN [source |-> "final_report",
                  text |-> GetVal(yaml_data, "final_report",
                                  "Report generation failed"),
                  raw |-> <<>>]
        ELSE [source |-> "no analysis_complete", text |->
                "LLM did not return analysis_complete action, report generation failed",
              raw |-> <<>>]

\* _generate_final_report and the return of analyze
\* the dictionary analyze returns
ReturnValue(content) ==
    [total_rounds |-> current_round,
     analysis_results |-> analysis_results,
     conversation_history |-> conversation_history,
     final_report |-> content.text,
     report_source |-> content.source,
     report_raw |-> content.raw,
     report_failed |-> FALSE,
     report_response |-> <<>>]
\* 'matplotlib' in code.lower() or 'plt.' in code.lower(), on the words a
\* fragment spells out
is_matplotlib(code) ==
    \E n \in NodesOf(code) :
        \/ n.type = "Name" /\ n.id = "matplotlib"
        \/ n.type = "alias" /\ n.name \in {"matplotlib", "matplotlib.pyplot"}
        \/ n.type = "ImportFrom"
              /\ n.module \in {"matplotlib", "matplotlib.pyplot"}
        \/ n.type = "Attribute" /\ n.children[1] = Name("plt")
\* 'savefig' in code.lower()
has_savefig(code) ==
    \E n \in NodesOf(code) : n.type = "Attribute" /\ n.attr = "savefig"
\* DataAnalysisAgent._find_all_matplotlib_codes
find_all_matplotlib_codes(results) ==
    SelectSeq(results,
              LAMBDA r : /\ r.action # "collect_figures"
                         /\ Truthy(r.code)
                         /\ r.result.success
                         /\ is_matplotlib(r.code.text)
                         /\ has_savefig(r.code.text))

\* max_attempts of _convert_matplotlib_to_recharts
max_attempts == 5

\* one pass through the retry loop of _convert_matplotlib_to_recharts, for
\* the code extracted from the response: nothing is executed without code
\* (a call of the model that raised leaves none), otherwise the code goes to
\* execute_code
\* a pass that hands the code to the shell itself
convert_step_unchecked(code, ns) ==
    IF ~Truthy(code)
        THEN [executed |-> FALSE, ns |-> ns, ran |-> FALSE,
              result |-> NoResult, code |-> code]
        ELSE [executed |-> TRUE, code |-> code,
              ns |-> run_cell(code.text, ns).ns,
              ran |-> TRUE,
              result |-> after_run_cell(ns, run_cell(code.text, ns),
                             format_table_output(
                                 run_cell(code.text, ns).result)).result]
\* lines 757-778: if not code: continue, else self.executor.execute_code(code)
convert_step(code, ns) ==
    IF ~Truthy(code)
        THEN [executed |-> FALSE, ns |-> ns, ran |-> FALSE,
              result |-> NoResult, code |-> code]
        ELSE [executed |-> TRUE, code |-> code,
              ns |-> execute_code(code.text, ns).ns,
              ran |-> execute_code(code.text, ns).ran,
              result |-> execute_code(code.text, ns).result]

\* the loop of _generate_final_report over the charts and the loop of
\* _convert_matplotlib_to_recharts over the attempts: a call begins with
\* attempt 1 for the next chart, returns the code of the first attempt that
\* executed with success, and None after max_attempts
next_conversion(c, s) ==
    [chart |-> IF c.result = "pending" THEN c.chart ELSE c.chart + 1,
     attempt |-> IF c.result = "pending" THEN c.attempt + 1 ELSE 1,
     refused |-> (IF c.result = "pending" THEN c.refused ELSE 0)
                   + (IF s.executed /\ ~s.ran THEN 1 ELSE 0),
     submitted |-> s.executed,
     result |-> IF s.executed /\ s.result.success THEN "code"
                ELSE IF c.result = "pending" /\ c.attempt + 1 = max_attempts
                    THEN "None"
                ELSE "pending"]
\* every chart of the list has been through _convert_matplotlib_to_recharts
ConversionsDone ==
    /\ conversion.result # "pending"
    /\ conversion.chart = Len(find_all_matplotlib_codes(analysis_results))

\* the rest of an attempt once the code of the response was dealt with as s
Attempted(s) ==
    /\ user_ns' = s.ns
    /\ exec_pc' = IF s.executed THEN "execute_code" ELSE exec_pc
    /\ last_code' = IF s.executed THEN s.code.text ELSE last_code
    /\ last_result' = IF s.executed THEN s.result ELSE last_result
    /\ ns_before' = IF s.executed THEN user_ns ELSE ns_before
    /\ ran_cell' = IF s.executed THEN s.ran ELSE ran_cell
    /\ conversion' = next_conversion(conversion, s)
\* one attempt of _convert_matplotlib_to_recharts
ConvertAttempt(outcome) ==
    /\ pc = "final"
    /\ ~ConversionsDone
    /\ Attempted(convert_step(extract_code_from_response(llm_call(outcome)),
                              user_ns))
    /\ UNCHANGED <<max_rounds, current_round, conversation_history,
                   analysis_results, pc, loop_calls, report_calls, round_log,
                   returned>>
    /\ UNCHANGED client_vars

\* the rest of _generate_final_report once the charts have been through the
\* conversion: report_calls counts the call of self.llm.call made with the
\* report prompt
GenerateFinalReport(outcome) ==
    /\ pc = "final"
    /\ ConversionsDone
    /\ report_calls' = report_calls + 1
    /\ returned' = [ReturnValue(final_report_content(llm_call(outcome)))
                        EXCEPT !.report_failed = ~outcome.ok,
                               !.report_response = llm_call(outcome)]
    /\ pc' = "returned"
    /\ UNCHANGED <<max_rounds, current_round, conversation_history,
                   analysis_results, loop_calls, round_log, conversion>>
    /\ UNCHANGED <<exec_vars, client_vars>>

\* the rounds and the conversion attempts of an analysis that plots
RespPlot ==
    YamlBlock(<<KV("action", "generate_code"), KVCode(Text(<<PlotSavefig>>))>>)
RespAssignPd ==
    YamlBlock(<<KV("action", "generate_code"), KVCode(Text(<<AssignPd>>))>>)
RespWriteJsx    == <<Prose, Fence, Word("python"), Src(WriteJsx), Fence>>
RespPythonRaises == <<Fence, Word("python"), Src(RaiseValueError), Fence>>
PlottingOutcomes ==
    {[ok |-> TRUE, text |-> r] : r \in {RespPlot, RespAssignPd, RespComplete}}
        \cup {[ok |-> FALSE, text |-> <<>>]}
ConversionOutcomes ==
    {[ok |-> TRUE, text |-> r] :
        r \in {RespWriteJsx, RespPython, RespPythonRaises, RespProse}}
        \cup {[ok |-> FALSE, text |-> <<>>]}

\* analyze with plotting rounds, then the host's use of the agent's executor
ConvertNext ==
    \/ AnalyzeStart
    \/ \E outcome \in PlottingOutcomes : Round(outcome)
    \/ LoopExit
    \/ \E outcome \in ConversionOutcomes : ConvertAttempt(outcome)
    \/ GenerateFinalReport([ok |-> TRUE, text |-> RespComplete])
    \/ pc = "returned" /\ SetVariable("x", StrValue("outputs/session"))
    \/ pc = "returned" /\ ResetEnvironment
    \/ pc = "returned" /\ NewExecutor

AgentNext ==
    \/ AnalyzeStart
    \/ \E outcome \in LLMOutcomes : Round(outcome)
    \/ LoopExit
    \/ \E outcome \in ReportOutcomes : GenerateFinalReport(outcome)

ExecNext ==
    \/ \E stmt \in StmtSet : WriteLine(stmt)
    \/ ExecuteCode
    \/ SetVariable("session_output_dir", StrValue("outputs/session"))
    \/ ResetEnvironment
    \/ NewExecutor

(***************************************************************************)
(* The specifications.                                                     *)
(***************************************************************************)
Init == ExecInit /\ ClientInit /\ cfg.max_retries_primary = 1
            /\ cfg.max_retries_fallback = 1 /\ ~cfg.fallback_api_key
            /\ ~cfg.fallback_base_url /\ ~cfg.fallback_model_name
            /\ AgentInit
Next == AgentNext
Spec == Init /\ [][Next]_vars
\* analyze is a sequential program: it keeps running while it has a step
FairSpec == Spec /\ WF_vars(Next)
\* the same agent, its rounds answered with plotting code
ConvertSpec == Init /\ [][ConvertNext]_vars

ExecSpecInit == ExecInit /\ ClientInit /\ cfg.max_retries_primary = 1
            /\ cfg.max_retries_fallback = 1 /\ ~cfg.fallback_api_key
            /\ ~cfg.fallback_base_url /\ ~cfg.fallback_model_name
            /\ AgentInit /\ max_rounds = 0
ExecSpec == ExecSpecInit /\ [][ExecNext]_vars
\* the same session, submitted import statements only
ImportSpec == ExecSpecInit /\ [][ImportNext]_vars

ClientSpecInit == ExecInit /\ ClientInit /\ AgentInit /\ max_rounds = 0
ClientSpec == ClientSpecInit /\ [][ClientNext]_vars
\* every awaited request and every asyncio.sleep of the call ends (each
\* attempt has the client's network timeout), and the coroutine is resumed
FairClientSpec == ClientSpec /\ WF_vars(ClientNext)

\* TableSpec: a session in which an earlier fragment has bound df to a table
\* or a series of some number of rows, driven with fragments that show it
TableSpecInit ==
    /\ \E rows \in 0..MaxRows :
          \/ user_ns = Bind(BaselineNs, "df", DataFrame(rows))
          \/ user_ns = Bind(BaselineNs, "df", Series(rows))
    /\ ns_before = user_ns
    /\ exec_pc = "constructed"
    /\ last_code = <<>>
    /\ last_result = NoResult
    /\ ran_cell = FALSE
    /\ ClientInit /\ cfg.max_retries_primary = 1
    /\ cfg.max_retries_fallback = 1 /\ ~cfg.fallback_api_key
    /\ ~cfg.fallback_base_url /\ ~cfg.fallback_model_name
    /\ AgentInit /\ max_rounds = 0
TableNext ==
    \/ \E stmt \in {ShowDf, PrintOne} : WriteLine(stmt)
    \/ ExecuteCode
TableSpec == TableSpecInit /\ [][TableNext]_vars

(***************************************************************************)
(* PROPERTIES OF THE AGENT CONTROL LOOP (Spec, FairSpec)                   *)
(***************************************************************************)

\* C1: during one analyze call the round counter starts at 0, moves only in
\* steps of +1 and never leaves 0..max_rounds, whatever the model answers
\* and whatever the rounds do.
C1_RoundCounter ==
    /\ [](/\ 0 <= current_round
          /\ current_round <= max_rounds
          /\ current_round = loop_calls
          /\ (pc = "constructed" => current_round = 0))
    /\ [][\/ current_round' = current_round
          \/ current_round' = current_round + 1]_vars

\* the whole budget was used, one round at a time
C1_Witness ==
    /\ max_rounds >= 2
    /\ current_round = max_rounds
    /\ Len(round_log) = max_rounds
    /\ pc = "final"

\* C2: whatever the model does in each round (invalid responses, failing
\* code, client failures, any mix, no analysis_complete at all), the round
\* loop ends and analyze returns a result.
C2_AnalyzeReturns == <>(pc = "returned")

\* analyze returned after a full budget without any analysis_complete, with
\* a client failure and a round of failing code on the way
C2_Witness ==
    /\ pc = "returned"
    /\ max_rounds >= 2
    /\ returned.total_rounds = max_rounds
    /\ \A i \in 1..Len(round_log) : ~round_log[i].stop
    /\ \E i \in 1..Len(round_log) : round_log[i].client_failed
    /\ \E i \in 1..Len(round_log) : round_log[i].response = RespCodeRaises

\* the response is decoded to a mapping whose action is analysis_complete
DecodesToComplete(response) ==
    /\ parse_yaml_response(response).kind = "dict"
    /\ GetVal(parse_yaml_response(response), "action", "generate_code")
           = "analysis_complete"

\* C3: a response of round k that decodes to analysis_complete stops the
\* loop on that round: round k is the last round, no further round-loop
\* model call is made and the returned total_rounds is k.
C3_CompleteStopsLoop ==
    \A i \in 1..Len(round_log) :
        DecodesToComplete(round_log[i].response) =>
            /\ i = Len(round_log)
            /\ round_log[i].round = i
            /\ i <= max_rounds
            /\ current_round = i
            /\ loop_calls = i
            /\ round_log[i].stop
            /\ pc \in {"final", "returned"}
            /\ (pc = "returned" => returned.total_rounds = i)

\* analysis_complete in round 1 with budget left: analyze returned after
\* one round-loop model call
C3_Witness ==
    /\ max_rounds = 2
    /\ pc = "returned"
    /\ Len(round_log) = 1
    /\ DecodesToComplete(round_log[1].response)
    /\ loop_calls = 1
    /\ returned.total_rounds = 1

\* a response with no fenced block, no recognized action and no code in it
RecognizedActions == {"generate_code", "collect_figures", "analysis_complete"}
Unrecognizable(response) ==
    \A i \in 1..Len(response) :
        /\ response[i] # Fence
        /\ response[i].sym # "src"
        /\ ~(response[i].sym = "kv" /\ response[i].word = "action"
                /\ response[i].val \in RecognizedActions)
        /\ ~(response[i].sym = "kv" /\ response[i].word = "code")

\* C4: a response with no fenced block, no recognized action and no
\* recoverable code is classified invalid_response: processing it raises no
\* error, executes no code and does not stop the loop, which goes on to the
\* next round while budget remains.
C4_InvalidResponse ==
    \A i \in 1..Len(round_log) :
        Unrecognizable(round_log[i].response) =>
            /\ round_log[i].action = "invalid_response"
            /\ ~round_log[i].raised
            /\ ~round_log[i].executed
            /\ ~round_log[i].stop
            /\ (i = Len(round_log) /\ i < max_rounds =>
                    pc = "loop" /\ LoopGuard(current_round, max_rounds))

\* a prose-only response was classified and the next round took place
C4_Witness ==
    /\ Len(round_log) >= 2
    /\ round_log[1].response = RespProse
    /\ round_log[1].action = "invalid_response"
    /\ round_log[2].round = 2

(***************************************************************************)
(* PROPERTIES OF THE EXECUTION ENGINE (ExecSpec)                           *)
(***************************************************************************)

\* the modules outside the allow-list that the fragment imports
DisallowedModules(code) ==
    {a.name : a \in {b \in NodesOf(code) :
                        b.type = "alias" /\ b.name \notin ALLOWED_IMPORTS
                        /\ \E n \in NodesOf(code) :
                               n.type = "Import"
                               /\ \E i \in 1..Len(n.names) : n.names[i] = b}}
    \cup {n.module : n \in {m \in NodesOf(code) :
                               m.type = "ImportFrom"
                               /\ m.module \notin ALLOWED_IMPORTS}}

\* the banned builtins the fragment calls directly by name
DirectDangerousCalls(code) ==
    {n.func.id : n \in {m \in NodesOf(code) :
                           m.type = "Call" /\ m.func.type = "Name"
                           /\ m.func.id \in DANGEROUS_CALLS}}

\* execute_code has just returned for the fragment in last_code
Executed == exec_pc = "execute_code"
\* the call was refused by the safety check and left the session alone
Refused ==
    /\ ~last_result.success
    /\ last_result.error.prefix = "Code safety check failed"
    /\ user_ns = ns_before
    /\ ~ran_cell

\* C5 as stated: every fragment with an import of a module outside the
\* allow-list is refused with an error naming that module, the namespace
\* unchanged.  (Read for the fragments that parse.)
C5_AsStated ==
    (Executed /\ ParseOK(last_code) /\ DisallowedModules(last_code) # {}) =>
        /\ Refused
        /\ last_result.error.kind = "Disallowed import"
        /\ last_result.error.name \in DisallowedModules(last_code)

\* C5, amended: a fragment with an import of a module outside the
\* allow-list, anywhere in it, is always refused with the namespace
\* unchanged and nothing run; the error names the first violation the
\* breadth-first walk meets: a disallowed module of the fragment when the
\* fragment parses and calls no banned builtin directly, a disallowed module
\* or a banned call of the fragment when it has both, and a syntax error
\* when the fragment does not parse.
C5_DisallowedImport ==
    (Executed /\ DisallowedModules(last_code) # {}) =>
        /\ Refused
        /\ IF ~ParseOK(last_code)
               THEN last_result.error.kind = "Syntax error"
           ELSE IF DirectDangerousCalls(last_code) = {}
               THEN /\ last_result.error.kind = "Disallowed import"
                    /\ last_result.error.name \in DisallowedModules(last_code)
           ELSE \/ /\ last_result.error.kind = "Disallowed import"
                   /\ last_result.error.name \in DisallowedModules(last_code)
                \/ /\ last_result.error.kind = "Disallowed function call"
                   /\ last_result.error.name
                          \in DirectDangerousCalls(last_code)

\* an assignment followed by a nested import of socket was refused, the
\* error naming socket, and x was not bound
C5_Witness ==
    /\ Executed
    /\ last_code = <<AssignX, IfImportSocket>>
    /\ Refused
    /\ last_result.error.kind = "Disallowed import"
    /\ last_result.error.name = "socket"
    /\ "x" \notin DOMAIN user_ns

C7_AsStated ==
    (Executed /\ ParseOK(last_code)
        /\ DirectDangerousCalls(last_code) # {}) =>
        /\ Refused
        /\ last_result.error.kind = "Disallowed function call"
        /\ last_result.error.name \in DirectDangerousCalls(last_code)

\* C7, amended: a fragment with a direct call to exec, eval, open or
\* __import__ at any depth, a function body never invoked included, is
\* always refused and no part of it is executed; the diagnostic names the
\* first violation the breadth-first walk meets: a banned call of the
\* fragment when the fragment parses and imports no module outside the
\* allow-list, a banned call or a disallowed module of the fragment when it
\* has both, and a syntax error when the fragment does not parse.
C7_DangerousCall ==
    (Executed /\ DirectDangerousCalls(last_code) # {}) =>
        /\ Refused
        /\ IF ~ParseOK(last_code)
               THEN last_result.error.kind = "Syntax error"
           ELSE IF DisallowedModules(last_code) = {}
               THEN /\ last_result.error.kind = "Disallowed function call"
                    /\ last_result.error.name
                           \in DirectDangerousCalls(last_code)
           ELSE \/ /\ last_result.error.kind = "Disallowed function call"
                   /\ last_result.error.name
                          \in DirectDangerousCalls(last_code)
                \/ /\ last_result.error.kind = "Disallowed import"
                   /\ last_result.error.name \in DisallowedModules(last_code)

\* an assignment followed by a function whose body calls open: refused
\* naming open, and neither x nor f was bound
C7_Witness ==
    /\ Executed
    /\ last_code = <<AssignX, DefWithOpen>>
    /\ Refused
    /\ last_result.error.kind = "Disallowed function call"
    /\ last_result.error.name = "open"
    /\ "x" \notin DOMAIN user_ns
    /\ "f" \notin DOMAIN user_ns

(***************************************************************************)
(* PROPERTIES OF THE MODEL CLIENT (ClientSpec)                             *)
(***************************************************************************)
LastEnding(log) == log[Len(log)]
PrimaryPhase  == {"p_send", "p_wait", "p_sleep"}
FallbackPhase == {"f_send", "f_wait", "f_sleep"}

\* C8: within one call the primary is attempted at most
\* max_retries_primary + 1 times; a connection, timeout or status failure
\* of an attempt within the retry budget is followed by another primary
\* attempt; and when the primary's first k attempts failed and attempt k+1
\* succeeds, the call returns that completion and no fallback attempt is
\* made.
C8_RetryThenSuccess ==
    /\ p_attempts <= cfg.max_retries_primary + 1
    /\ (/\ p_log # <<>>
        /\ LastEnding(p_log) \in {"connection error", "status error"}
        /\ Len(p_log) <= cfg.max_retries_primary)
           => cpc \in PrimaryPhase
    /\ (p_log # <<>> /\ LastEnding(p_log) = "completion") =>
           /\ cpc = "returned"
           /\ call_result.status = "returned"
           /\ call_result.api = "Primary"
           /\ call_result.attempt = Len(p_log)
           /\ Len(p_log) <= cfg.max_retries_primary + 1
           /\ f_attempts = 0
           /\ f_log = <<>>

\* two failed primary attempts, then a completion on the third, with
\* max_retries_primary = 2 and a fallback that was left alone
C8_Witness ==
    /\ cfg.max_retries_primary = 2
    /\ HasFallback(cfg)
    /\ Len(p_log) = 3
    /\ p_log[1] = "connection error"
    /\ p_log[2] = "status error"
    /\ p_log[3] = "completion"
    /\ cpc = "returned"
    /\ call_result.api = "Primary"
    /\ f_attempts = 0

\* C9: with a fallback configured, a primary attempt that ends with the
\* content-policy 400 is the last primary attempt of the call whatever
\* retry budget remains; only the fallback is attempted after it, and a
\* fallback completion is what the call returns.
C9_ContentPolicyFailover ==
    \A i \in 1..Len(p_log) :
        (p_log[i] = "content policy" /\ HasFallback(cfg)) =>
            /\ i = Len(p_log)
            /\ p_attempts = i
            /\ "Primary" \notin in_flight
            /\ cpc \in FallbackPhase \cup {"returned", "raised"}
            /\ (cpc \in {"returned", "raised"} =>
                    call_result.api = "Fallback" /\ f_attempts >= 1)
            /\ (f_log # <<>> /\ LastEnding(f_log) = "completion" =>
                    /\ cpc = "returned"
                    /\ call_result.status = "returned"
                    /\ call_result.api = "Fallback")

\* the first primary attempt met the content policy with two retries left;
\* the fallback answered and its completion was returned
C9_Witness ==
    /\ HasFallback(cfg)
    /\ cfg.max_retries_primary = 2
    /\ p_log = <<"content policy">>
    /\ p_attempts = 1
    /\ f_log = <<"completion">>
    /\ cpc = "returned"
    /\ call_result.api = "Fallback"

\* C10 as stated: a primary failure other than the content-policy
\* signature (connection error, timeout, status error, other API error)
\* reaches the caller only when no fallback is configured; with a fallback
\* configured the fallback is attempted.
C10_AsStated ==
    (/\ cpc = "raised"
     /\ call_result.api = "Primary"
     /\ IsApiError(call_result.error)
     /\ ~is_content_filter_error(call_result.error))
        => ~HasFallback(cfg)

\* how the attempt that raised error e had ended
EndingOfError(e) == EndingOf([e EXCEPT !.api = ""])

\* C11: when the fallback phase was entered and the call raised, the
\* fallback was attempted at most max_retries_fallback + 1 times and the
\* error raised is the error of the last fallback attempt: it comes from the
\* fallback endpoint and is the way that last attempt ended.
C11_FallbackErrorSurfaced ==
    /\ f_attempts <= cfg.max_retries_fallback + 1
    /\ (cpc = "raised" /\ f_attempts >= 1) =>
           /\ call_result.status = "raised"
           /\ call_result.api = "Fallback"
           /\ call_result.error.api = "Fallback"
           /\ call_result.error # NoException
           /\ call_result.attempt = Len(f_log)
           /\ EndingOfError(call_result.error) = LastEnding(f_log)
           /\ LastEnding(f_log) # "completion"

\* the primary met a connection error on its only attempt, the fallback a
\* connection error and then a status error: the status error is raised
C11_Witness ==
    /\ cfg.max_retries_primary = 0
    /\ cfg.max_retries_fallback = 1
    /\ p_log = <<"connection error">>
    /\ f_log = <<"connection error", "status error">>
    /\ cpc = "raised"
    /\ call_result.error.cls = "APIStatusError"
    /\ call_result.error.api = "Fallback"

\* C12 as stated: a round in which the model client failed saw an error
\* raised, never a text handed to the rest of the round.
C12_AsStated ==
    \A i \in 1..Len(round_log) :
        round_log[i].client_failed => round_log[i].raised

\* C13: whatever a round raises stays inside the round loop of analyze:
\* analyze is only ever before the loop, in it, in the final-report pass or
\* returned; a round that raised is followed by the round with the next
\* number, and when it was the last round the loop is still running or has
\* ended because the round budget is used up.
C13_NoEscape ==
    /\ pc \in {"constructed", "loop", "final", "returned"}
    /\ \A i \in 1..Len(round_log) :
           round_log[i].raised =>
               /\ ~round_log[i].stop
               /\ i < Len(round_log) =>
                      round_log[i + 1].round = round_log[i].round + 1
               /\ (i = Len(round_log) /\ pc # "loop") =>
                      /\ pc \in {"final", "returned"}
                      /\ current_round = max_rounds

\* the first round raised and a second round was run after it
C13_Witness ==
    /\ Len(round_log) = 2
    /\ round_log[1].raised
    /\ round_log[1].round = 1
    /\ round_log[2].round = 2
    /\ conversation_history[2].kind = "Error occurred"

\* C14 as stated: when the model client failed in the latest round, the
\* latest conversation entry is the user turn that reports the error and
\* asks for regeneration.
C14_AsStated ==
    (Len(round_log) >= 1 /\ round_log[Len(round_log)].client_failed) =>
        /\ conversation_history[Len(conversation_history)].role = "user"
        /\ conversation_history[Len(conversation_history)].kind =
               "Error occurred"

\* C15 as stated: when the model call of the final-report pass failed,
\* analyze returns and the final report of the result is the text
\* "Report generation failed: <reason>".
C15_AsStated ==
    (pc = "returned" /\ returned.report_failed) =>
        returned.final_report = "Report generation failed: <reason>"

(***************************************************************************)
(* PROPERTIES OF THE SESSION NAMESPACE (ExecSpec)                          *)
(***************************************************************************)

\* the names bound in the session beyond what the executor binds itself
SessionBindings(ns) == (DOMAIN ns) \ (DOMAIN BaselineNs)

C17_AsStated ==
    exec_pc = "constructed" => SessionBindings(user_ns) = {}

(***************************************************************************)
(* FURTHER PROPERTIES OF THE MODEL CLIENT (ClientSpec)                     *)
(***************************************************************************)

\* C18: within a call at most one request is outstanding, and only while the
\* client awaits it; every earlier attempt on the same endpoint has ended
\* before the next one is sent; and once a fallback attempt has been sent
\* every primary attempt has ended, the last of them with a failure, and no
\* primary attempt is made any more.
C18_OneAttemptAtATime ==
    /\ Cardinality(in_flight) <= 1
    /\ in_flight # {} <=> cpc \in {"p_wait", "f_wait"}
    /\ cpc = "p_wait" => in_flight = {"Primary"}
    /\ cpc = "f_wait" => in_flight = {"Fallback"}
    /\ Len(p_log) = (IF cpc = "p_wait" THEN p_attempts - 1 ELSE p_attempts)
    /\ Len(f_log) = (IF cpc = "f_wait" THEN f_attempts - 1 ELSE f_attempts)
    /\ (f_attempts >= 1 \/ cpc \in FallbackPhase) =>
           /\ cpc \notin PrimaryPhase
           /\ p_attempts >= 1
           /\ Len(p_log) = p_attempts
           /\ LastEnding(p_log) # "completion"

\* the primary failed twice with connection errors, and the first fallback
\* request is the only one outstanding
C18_Witness ==
    /\ cfg.max_retries_primary = 1
    /\ p_log = <<"connection error", "connection error">>
    /\ cpc = "f_wait"
    /\ f_attempts = 1
    /\ f_log = <<>>
    /\ in_flight = {"Fallback"}

(***************************************************************************)
(* FURTHER PROPERTIES OF THE AGENT CONTROL LOOP (Spec, FairSpec)           *)
(***************************************************************************)

\* C19: however the round loop ends, by an analysis_complete response or by
\* the round counter reaching max_rounds, analyze goes on to the final-report
\* pass and returns; the model is called for the report exactly once, and
\* only there; that call changes neither the round counter nor the number of
\* rounds run; and what analyze returns is the result record with the round
\* count and a final report taken from that one call, on the exhausted
\* budget just as after analysis_complete.
C19_FinalReportPass ==
    /\ [](report_calls = (IF pc = "returned" THEN 1 ELSE 0))
    /\ [](pc = "returned" =>
             /\ returned # NoReturn
             /\ returned.total_rounds = current_round
             /\ returned.analysis_results = analysis_results
             /\ returned.conversation_history = conversation_history
             /\ returned.report_source \in
                    {"final_report", "no analysis_complete", "raw response"})
    /\ [][report_calls' # report_calls =>
             /\ pc = "final"
             /\ pc' = "returned"
             /\ current_round' = current_round
             /\ loop_calls' = loop_calls]_vars
    /\ (pc = "final") ~> (pc = "returned")

\* two rounds ran code, none said analysis_complete, the budget of two
\* rounds is used up, and analyze has returned the report of the one call
C19_Witness ==
    /\ pc = "returned"
    /\ max_rounds = 2
    /\ current_round = 2
    /\ \A i \in 1..Len(round_log) : ~round_log[i].stop
    /\ report_calls = 1
    /\ returned.total_rounds = 2
    /\ returned.report_source = "final_report"
    /\ returned.final_report = "report"

\* C20: a round in which the generate_code handling ran code appends to the
\* conversation exactly the assistant turn with the raw response followed by
\* the user turn with the execution feedback, appends exactly one round
\* result that carries the number of the round, the code and the outcome of
\* execute_code, and leaves the loop running; the same whether the code ran
\* to the end, was refused by the safety check or failed while running.
C20_CodeRound ==
    [][(/\ Len(round_log') = Len(round_log) + 1
        /\ round_log'[Len(round_log')].executed) =>
          /\ current_round' = current_round + 1
          /\ conversation_history' = conversation_history \o
                 <<Entry("assistant", "response",
                         round_log'[Len(round_log')].response, NoFeedback, 0),
                   Entry("user", "Code execution feedback", <<>>,
                         format_execution_result(last_result'), 0)>>
          /\ Len(analysis_results') = Len(analysis_results) + 1
          /\ SubSeq(analysis_results', 1, Len(analysis_results))
                 = analysis_results
          /\ analysis_results'[Len(analysis_results')].round = current_round'
          /\ analysis_results'[Len(analysis_results')].code.text = last_code'
          /\ analysis_results'[Len(analysis_results')].result = last_result'
          /\ analysis_results'[Len(analysis_results')].response =
                 round_log'[Len(round_log')].response
          /\ pc' = "loop"
      ]_vars

\* round 1 ran code that succeeded and round 2 code that the safety check
\* refused: four turns follow the initial prompt and both rounds are recorded
C20_Witness ==
    /\ Len(round_log) = 2
    /\ round_log[1].executed
    /\ round_log[2].executed
    /\ Len(analysis_results) = 2
    /\ analysis_results[1].round = 1
    /\ analysis_results[1].result.success
    /\ analysis_results[2].round = 2
    /\ ~analysis_results[2].result.success
    /\ analysis_results[2].result.error.prefix = "Code safety check failed"
    /\ Len(conversation_history) = 5
    /\ conversation_history[4].role = "assistant"
    /\ conversation_history[5].kind = "Code execution feedback"
    /\ conversation_history[5].feedback.header = "Code execution failed"
    /\ pc = "loop"

\* the figure descriptors a response lists under figures_to_collect
DescriptorsOf(response) ==
    LastOf(parse_yaml_response(response).content, "figures_to_collect").figs.items

\* C21: a round handled as collect_figures records one figure record for
\* every descriptor of the response, in order, with the descriptor's fields
\* (and the defaults of those it leaves out), whatever its file path is;
\* the round appends the assistant turn with the response, then the figure
\* feedback turn whose count is the number of descriptors, and one round
\* result holding the records, and the loop goes on.
C21_CollectFigures ==
    [][(/\ Len(round_log') = Len(round_log) + 1
        /\ round_log'[Len(round_log')].action = "collect_figures") =>
          LET response == round_log'[Len(round_log')].response
              descriptors == DescriptorsOf(response)
              recorded == analysis_results'[Len(analysis_results')]
          IN  /\ conversation_history' = conversation_history \o
                     <<Entry("assistant", "response", response, NoFeedback, 0),
                       Entry("user", "Figure collection feedback", <<>>,
                             NoFeedback, Len(descriptors))>>
              /\ Len(analysis_results') = Len(analysis_results) + 1
              /\ SubSeq(analysis_results', 1, Len(analysis_results))
                     = analysis_results
              /\ recorded.round = current_round'
              /\ recorded.action = "collect_figures"
              /\ Len(recorded.collected_figures) = Len(descriptors)
              /\ \A i \in 1..Len(descriptors) :
                     /\ recorded.collected_figures[i].figure_number =
                            descriptors[i].figure_number
                     /\ recorded.collected_figures[i].file_path =
                            descriptors[i].file_path
              /\ pc' = "loop"
      ]_vars

\* round 1 collected two figures, one whose file is missing and one without
\* a path: both are recorded and the feedback counts two
C21_Witness ==
    /\ Len(round_log) = 1
    /\ round_log[1].action = "collect_figures"
    /\ Len(analysis_results) = 1
    /\ Len(analysis_results[1].collected_figures) = 2
    /\ analysis_results[1].collected_figures[1].file_path = "missing.png"
    /\ analysis_results[1].collected_figures[2].file_path = ""
    /\ analysis_results[1].collected_figures[2].filename = "figure_2.png"
    /\ conversation_history[3].kind = "Figure collection feedback"
    /\ conversation_history[3].count = 2
    /\ pc = "loop"

\* C22: the round that gets analysis_complete and stops the loop leaves the
\* conversation log and the list of round results exactly as they were when
\* the round began.
C22_CompleteAppendsNothing ==
    [][(/\ Len(round_log') = Len(round_log) + 1
        /\ round_log'[Len(round_log')].action = "analysis_complete") =>
          /\ round_log'[Len(round_log')].stop
          /\ conversation_history' = conversation_history
          /\ analysis_results' = analysis_results
          /\ pc' = "final"
      ]_vars

\* round 1 ran code and round 2 got analysis_complete: the log still holds
\* the initial prompt and the two turns of round 1, and one round result
C22_Witness ==
    /\ Len(round_log) = 2
    /\ round_log[1].executed
    /\ round_log[2].action = "analysis_complete"
    /\ round_log[2].response = RespComplete
    /\ Len(conversation_history) = 3
    /\ conversation_history[3].kind = "Code execution feedback"
    /\ Len(analysis_results) = 1
    /\ pc = "final"

\* the report text of the response that ended the loop
ReportOfLastRound ==
    GetVal(parse_yaml_response(round_log[Len(round_log)].response),
           "final_report", "Analysis completed, no final report")

\* C23 as stated: when the loop ended on analysis_complete, the report text
\* of that response is what analyze returns as the final report, or the
\* response that carries it is kept in the conversation log.
C23_AsStated ==
    (/\ pc = "returned"
     /\ Len(round_log) >= 1
     /\ round_log[Len(round_log)].stop) =>
        \/ returned.final_report = ReportOfLastRound
        \/ \E i \in 1..Len(conversation_history) :
               conversation_history[i].response =
                   round_log[Len(round_log)].response

\* C24 as stated: when the latest round was classified invalid_response, the
\* latest entry of the conversation log is a user turn, the instruction to
\* regenerate.
C24_AsStated ==
    (/\ Len(round_log) >= 1
     /\ round_log[Len(round_log)].action = "invalid_response") =>
        conversation_history[Len(conversation_history)].role = "user"

\* sequence a is a prefix of sequence b
IsPrefix(a, b) == Len(a) <= Len(b) /\ SubSeq(b, 1, Len(a)) = a

\* C25: during an analyze call every step leaves the conversation log as it
\* is or extends it at the end, so the log of any earlier state is a prefix
\* of the log of any later one; and once analyze has logged the initial
\* request, that user turn is and stays the first entry.
C25_LogAppendOnly ==
    /\ [][IsPrefix(conversation_history, conversation_history')]_vars
    /\ [](pc # "constructed" =>
             /\ Len(conversation_history) >= 1
             /\ conversation_history[1] = InitialPrompt
             /\ conversation_history[1].role = "user")

\* round 1 was an invalid response and round 2 collected figures: the log
\* holds the initial request, the two assistant turns and the feedback turn
C25_Witness ==
    /\ Len(round_log) = 2
    /\ round_log[1].action = "invalid_response"
    /\ round_log[2].action = "collect_figures"
    /\ Len(conversation_history) = 4
    /\ conversation_history[1] = InitialPrompt
    /\ conversation_history[2].role = "assistant"
    /\ conversation_history[3].role = "assistant"
    /\ conversation_history[4].kind = "Figure collection feedback"

\* C26: every step leaves the list of round results as it is or adds one
\* entry at its end; an entry is added only by a round that was handled as
\* generate_code with code that was run or as collect_figures, never by an
\* invalid_response, analysis_complete or error round; the recorded round
\* numbers increase strictly and lie in 1..current_round, so the list is
\* never longer than the round counter.
C26_ResultsAppendOnly ==
    /\ [][/\ IsPrefix(analysis_results, analysis_results')
          /\ Len(analysis_results') <= Len(analysis_results) + 1
          /\ Len(analysis_results') = Len(analysis_results) + 1 =>
                /\ Len(round_log') = Len(round_log) + 1
                /\ ~round_log'[Len(round_log')].raised
                /\ \/ /\ round_log'[Len(round_log')].action = "generate_code"
                      /\ round_log'[Len(round_log')].executed
                   \/ round_log'[Len(round_log')].action = "collect_figures"
                /\ analysis_results'[Len(analysis_results')].round
                       = current_round'
          /\ (/\ Len(round_log') = Len(round_log) + 1
              /\ round_log'[Len(round_log')].action \in
                     {"invalid_response", "analysis_complete", "error"}) =>
                analysis_results' = analysis_results
         ]_vars
    /\ [](/\ Len(analysis_results) <= current_round
          /\ \A i \in 1..Len(analysis_results) :
                /\ analysis_results[i].round \in 1..current_round
                /\ \A j \in (i + 1)..Len(analysis_results) :
                       analysis_results[i].round < analysis_results[j].round)

\* round 1 was an invalid response and round 2 ran code: the only round
\* result is that of round 2
C26_Witness ==
    /\ Len(round_log) = 2
    /\ round_log[1].action = "invalid_response"
    /\ round_log[2].action = "generate_code"
    /\ round_log[2].executed
    /\ current_round = 2
    /\ Len(analysis_results) = 1
    /\ analysis_results[1].round = 2

\* C27: the variables a successful execute_code reports are exactly the
\* names that were not bound before the call, do not start with an
\* underscore, and are bound afterwards to a value with a shape (or are
\* session_output_dir), each with its value; a name that was already bound
\* is never reported, even when the fragment rebinds it; and every outcome
\* that is not a success reports no variables.
C27_ReportedVariables ==
    Executed =>
        /\ last_result.success =>
              /\ DOMAIN last_result.variables \subseteq
                     (DOMAIN user_ns) \ (DOMAIN ns_before)
              /\ \A n \in (DOMAIN user_ns) \ (DOMAIN ns_before) :
                     n \in DOMAIN last_result.variables <=>
                         /\ n \notin PrivateNames
                         /\ HasShape(user_ns[n]) \/ n = "session_output_dir"
              /\ \A n \in DOMAIN last_result.variables :
                     last_result.variables[n] = user_ns[n]
        /\ ~last_result.success => last_result.variables = NoVariables

\* df was bound by an earlier call; the fragment that has just succeeded
\* binds df again and x for the first time: neither is reported, df because
\* it is not new and x because an int has no shape
C27_Witness ==
    /\ Executed
    /\ last_result.success
    /\ last_code = <<AssignDf, AssignX>>
    /\ "df" \in DOMAIN ns_before
    /\ "x" \notin DOMAIN ns_before
    /\ {"df", "x"} \subseteq DOMAIN user_ns
    /\ last_result.variables = NoVariables

(***************************************************************************)
(* PROPERTIES OF THE TABLE OUTPUT (TableSpec)                              *)
(***************************************************************************)

\* the fragment that has just been executed ends by showing the table df
ShowedTable ==
    /\ Executed
    /\ last_code # <<>>
    /\ last_code[Len(last_code)] = ShowDf
    /\ user_ns["df"].type = "DataFrame"
\* what the output of the latest call shows of the value of the fragment
ShownValue == last_result.output[Len(last_result.output)]

\* C28 as stated: a table of r rows is shown in full if r is under 15 and
\* otherwise, exactly 15 rows included, as its first 5 rows, the marker with
\* r - 10 omitted rows and its last 5 rows.
C28_AsStated ==
    ShowedTable =>
        /\ last_result.success
        /\ user_ns["df"].rows < 15 =>
               ShownValue = [full |-> TRUE, rows |-> user_ns["df"].rows,
                             omitted |-> 0]
        /\ user_ns["df"].rows >= 15 =>
               ShownValue = [full |-> FALSE, rows |-> 10,
                             omitted |-> user_ns["df"].rows - 10]

\* C28: a table of r rows is shown in full if r is at most 15 and otherwise
\* (16 rows or more) as its first 5 rows, the marker with r - 10 omitted
\* rows and its last 5 rows; the text is appended to the captured output of
\* a successful outcome.
C28_TableOutput ==
    ShowedTable =>
        /\ last_result.success
        /\ last_result.output # <<>>
        /\ user_ns["df"].rows <= 15 =>
               ShownValue = [full |-> TRUE, rows |-> user_ns["df"].rows,
                             omitted |-> 0]
        /\ user_ns["df"].rows > 15 =>
               ShownValue = [full |-> FALSE, rows |-> 10,
                             omitted |-> user_ns["df"].rows - 10]

\* a table of exactly 15 rows has just been shown, in full
C28_Witness ==
    /\ ShowedTable
    /\ last_code = <<ShowDf>>
    /\ user_ns["df"].rows = 15
    /\ last_result.success
    /\ ShownValue = [full |-> TRUE, rows |-> 15, omitted |-> 0]

(***************************************************************************)
(* FURTHER PROPERTIES OF THE EXECUTION ENGINE (ExecSpec)                   *)
(***************************************************************************)

\* C29 as stated: an outcome with success = false has an error text and
\* neither captured output nor reported variables.
C29_AsStated ==
    (Executed /\ ~last_result.success) =>
        /\ last_result.error # NoError
        /\ last_result.output = <<>>
        /\ last_result.variables = NoVariables

\* C29: a successful outcome has an empty error text; a failed outcome has
\* an error text and reports no variables; its output is empty when the
\* safety check refused the fragment, and is what the fragment had printed
\* up to the failure when the fragment was run; the feedback made of the
\* outcome shows the error only for a failure and the variables only for a
\* success.
C29_OutcomeSides ==
    Executed =>
        /\ last_result.success =>
              /\ last_result.error = NoError
              /\ format_execution_result(last_result).error = NoError
              /\ format_execution_result(last_result).variables
                     = last_result.variables
        /\ ~last_result.success =>
              /\ last_result.error.prefix \in
                     {"Code safety check failed", "Error before execution",
                      "Execution error", "Execution exception"}
              /\ last_result.variables = NoVariables
              /\ ~ran_cell => last_result.output = <<>>
              /\ ran_cell => last_result.output
                                 = run_cell(last_code, ns_before).out
              /\ format_execution_result(last_result).error
                     = last_result.error
              /\ format_execution_result(last_result).output
                     = last_result.output
              /\ format_execution_result(last_result).variables = NoVariables

\* the fragment printed and then raised: the outcome is a failure that
\* carries the error and the output printed before it
C29_Witness ==
    /\ Executed
    /\ last_code = <<PrintOne, RaiseValueError>>
    /\ ~last_result.success
    /\ last_result.error.prefix = "Execution error"
    /\ last_result.output # <<>>
    /\ last_result.variables = NoVariables

\* C30: right after reset_environment the session namespace is the baseline
\* (what the shell binds itself and the common imports) and nothing else:
\* no binding made by executed code and no injected value, session_output_dir
\* included, is left; and a fragment executed against the baseline works as
\* in a new session: one that uses the imports succeeds and one that reads a
\* name bound before the reset fails.
C30_ResetToBaseline ==
    /\ exec_pc = "reset_environment" =>
           /\ user_ns = BaselineNs
           /\ SessionBindings(user_ns) = {}
           /\ "session_output_dir" \notin DOMAIN user_ns
           /\ \A n \in DOMAIN CommonImports : user_ns[n] = CommonImports[n]
    /\ (Executed /\ ns_before = BaselineNs) =>
           /\ last_code = <<AssignDf>> =>
                  (last_result.success /\ "df" \in DOMAIN user_ns)
           /\ last_code = <<ShowDf>> => ~last_result.success

\* df and session_output_dir were bound, and reset_environment has just
\* returned: the namespace is the baseline again
C30_Witness ==
    /\ exec_pc = "reset_environment"
    /\ {"df", "session_output_dir"} \subseteq DOMAIN ns_before
    /\ user_ns = BaselineNs

\* the primary attempts of this call that were followed by a backoff sleep
PrimarySleptAfter(i) ==
    \E k \in 1..Len(sleeps) :
        sleeps[k].api = "Primary" /\ sleeps[k].factor = i

\* C31 as stated: a primary attempt that ends with an API error other than
\* a connection or timeout error and without the content-policy signature
\* (a status error such as 500 or 429, or another API error) is the last
\* primary attempt of the call and no backoff sleep follows it.
C31_AsStated ==
    \A i \in 1..Len(p_log) :
        p_log[i] \in {"status error", "api error"} =>
            /\ i = Len(p_log)
            /\ p_attempts = i
            /\ cpc \notin PrimaryPhase
            /\ ~PrimarySleptAfter(i)

\* C31: connection, timeout and status errors are the errors retried on the
\* primary: such an attempt within the retry budget is followed by a backoff
\* sleep of delay x attempt, and every primary backoff sleep follows such an
\* attempt; an API error of any other kind ends the primary phase after
\* that single attempt, with no backoff sleep and no further primary
\* attempt in the call.
C31_RetriedKinds ==
    /\ \A i \in 1..Len(p_log) :
           /\ (/\ p_log[i] \in {"connection error", "status error"}
               /\ i <= cfg.max_retries_primary) => PrimarySleptAfter(i)
           /\ PrimarySleptAfter(i) =>
                  /\ p_log[i] \in {"connection error", "status error"}
                  /\ i <= cfg.max_retries_primary
           /\ p_log[i] = "api error" =>
                  /\ i = Len(p_log)
                  /\ p_attempts = i
                  /\ cpc \notin PrimaryPhase
                  /\ "Primary" \notin in_flight
    /\ \A k \in 1..Len(sleeps) :
           sleeps[k].api = "Primary" => sleeps[k].factor \in 1..Len(p_log)

\* with two retries allowed the first primary attempt met a status error
\* and was retried after a sleep; the second met another API error, which
\* ended the primary phase with a retry left
C31_Witness ==
    /\ cfg.max_retries_primary = 2
    /\ p_log = <<"status error", "api error">>
    /\ p_attempts = 2
    /\ PrimarySleptAfter(1)
    /\ ~PrimarySleptAfter(2)
    /\ cpc \in {"raised", "f_send"}

\* the constructor was given all three of the fallback's key, URL and model
FallbackFullyGiven ==
    /\ cfg.fallback_api_key
    /\ cfg.fallback_base_url
    /\ cfg.fallback_model_name

\* C32: a client constructed without a fallback, or with only some of the
\* fallback's key, URL and model, has no fallback: no request is ever sent
\* to a second endpoint, and a call whose primary phase ended in a failure
\* (the content-policy 400 included) raises the error of the last primary
\* attempt, which comes from the primary.
C32_NoFallbackConfigured ==
    ~FallbackFullyGiven =>
        /\ ~HasFallback(cfg)
        /\ f_attempts = 0
        /\ f_log = <<>>
        /\ cpc \notin FallbackPhase
        /\ "Fallback" \notin in_flight
        /\ \A k \in 1..Len(sleeps) : sleeps[k].api = "Primary"
        /\ p_attempts <= cfg.max_retries_primary + 1
        /\ (/\ p_log # <<>>
            /\ LastEnding(p_log) # "completion"
            /\ cpc \notin PrimaryPhase) =>
               /\ cpc = "raised"
               /\ call_result.status = "raised"
               /\ call_result.api = "Primary"
               /\ call_result.error.api = "Primary"
               /\ call_result.attempt = Len(p_log)
               /\ p_attempts = Len(p_log)
               /\ EndingOfError(call_result.error) = LastEnding(p_log)

\* a client given the fallback's key and URL but no model: after a
\* connection error the primary met the content policy, and the call raised
\* that error without a fallback attempt
C32_Witness ==
    /\ cfg.fallback_api_key
    /\ cfg.fallback_base_url
    /\ ~cfg.fallback_model_name
    /\ p_log = <<"connection error", "content policy">>
    /\ cpc = "raised"
    /\ call_result.api = "Primary"
    /\ is_content_filter_error(call_result.error)
    /\ f_attempts = 0

\* the attempts on an endpoint that were followed by a backoff sleep
SleptAfter(api_name, i) ==
    \E k \in 1..Len(sleeps) :
        sleeps[k].api = api_name /\ sleeps[k].factor = i

\* the bounds of one call: attempts per endpoint and in total, a sleep only
\* between two attempts on the same endpoint, and no primary activity once
\* the fallback phase has begun
C37_Bounded ==
    /\ p_attempts <= cfg.max_retries_primary + 1
    /\ f_attempts <= cfg.max_retries_fallback + 1
    /\ p_attempts + f_attempts
           <= (cfg.max_retries_primary + 1) + (cfg.max_retries_fallback + 1)
    /\ \A k \in 1..Len(sleeps) :
           /\ sleeps[k].api = "Primary" =>
                  /\ sleeps[k].factor <= cfg.max_retries_primary
                  /\ sleeps[k].factor < p_attempts \/ cpc \in {"p_sleep", "p_send"}
           /\ sleeps[k].api = "Fallback" =>
                  /\ sleeps[k].factor <= cfg.max_retries_fallback
                  /\ sleeps[k].factor < f_attempts \/ cpc \in {"f_sleep", "f_send"}
    /\ cpc \notin PrimaryPhase => ~SleptAfter("Primary", p_attempts)
    /\ cpc \in {"returned", "raised"} => ~SleptAfter("Fallback", f_attempts)
    /\ (f_attempts >= 1 \/ cpc \in FallbackPhase) =>
           /\ cpc \notin PrimaryPhase
           /\ "Primary" \notin in_flight
           /\ HasFallback(cfg)

\* C37: one completion call ends, returning or raising; it makes at most
\* (max_retries_primary + 1) + (max_retries_fallback + 1) network attempts;
\* no backoff sleep follows the last attempt on an endpoint; and once the
\* fallback has been attempted the primary is not attempted again.
C37_CallTerminates ==
    /\ []C37_Bounded
    /\ [][f_attempts >= 1 => p_attempts' = p_attempts]_vars
    /\ <>(cpc \in {"returned", "raised"})

\* both endpoints used their whole budget of three attempts and the call
\* raised, after two sleeps on each endpoint
C37_Witness ==
    /\ cfg.max_retries_primary = 2
    /\ cfg.max_retries_fallback = 2
    /\ p_attempts = 3
    /\ f_attempts = 3
    /\ Len(sleeps) = 4
    /\ cpc = "raised"
    /\ call_result.api = "Fallback"

(***************************************************************************)
(* PROPERTIES OF RESPONSE HANDLING (Spec)                                  *)
(***************************************************************************)
\* the latest round, and the namespace its response was processed in
LastRound == round_log[Len(round_log)]
NsOfLastRound == IF LastRound.executed THEN ns_before ELSE user_ns

IsActionLine(symbol) == symbol.sym = "kv" /\ symbol.word = "action"
\* the response decodes to a mapping whose action is absent or is none of
\* generate_code, collect_figures, analysis_complete
UnrecognizedAction(response) ==
    /\ parse_yaml_response(response).kind = "dict"
    /\ \/ "action" \notin parse_yaml_response(response).keys
       \/ GetVal(parse_yaml_response(response), "action", "")
              \notin RecognizedActions

\* the same response with generate_code as its action and every other line
\* as it was: the action lines rewritten, or one put before the first field
FirstField(response) ==
    CHOOSE i \in 1..Len(response) :
        /\ response[i].sym = "kv"
        /\ \A j \in 1..(i - 1) : response[j].sym # "kv"
AsGenerateCode(response) ==
    IF \E i \in 1..Len(response) : IsActionLine(response[i])
        THEN [i \in 1..Len(response) |->
                 IF IsActionLine(response[i])
                     THEN KV("action", "generate_code") ELSE response[i]]
    ELSE IF \E i \in 1..Len(response) : response[i].sym = "kv"
        THEN SubSeq(response, 1, FirstField(response) - 1)
                 \o <<KV("action", "generate_code")>>
                 \o SubSeq(response, FirstField(response), Len(response))
    ELSE response

\* the code _handle_generate_code finds for a response
RecoveredCode(response) ==
    code_of(response,
            IF "code" \in parse_yaml_response(response).keys
                THEN LastOf(parse_yaml_response(response).content, "code").code
                ELSE Text(<<>>))

\* the round r did what processing the response g in namespace ns does
RoundDidAs(r, g, ns) ==
    /\ r.raised = process_response(g, ns).raised
    /\ r.executed = process_response(g, ns).executed
    /\ r.action = IF process_response(g, ns).raised
                      THEN "error" ELSE process_response(g, ns).pr.action
    /\ r.stop = (/\ ~process_response(g, ns).raised
                 /\ ~process_response(g, ns).pr.continue)
    /\ user_ns = process_response(g, ns).ns
    /\ r.executed =>
           /\ last_result = process_response(g, ns).pr.result
           /\ ran_cell = process_response(g, ns).ran

\* C33: a response whose decoded action is absent or unrecognized is
\* handled as the same response with action generate_code: the round does
\* not stop the loop and records no figures, it executes the recovered code
\* and ends as a generate_code round when code text is recovered, and it
\* ends as invalid_response when none is.
C33_UnknownActionIsGenerateCode ==
    (round_log # <<>> /\ UnrecognizedAction(LastRound.response)) =>
        /\ RoundDidAs(LastRound, AsGenerateCode(LastRound.response),
                      NsOfLastRound)
        /\ ~LastRound.stop
        /\ pc # "final" \/ current_round = max_rounds
        /\ \A k \in 1..Len(analysis_results) :
               analysis_results[k].round = LastRound.round =>
                   /\ analysis_results[k].action # "collect_figures"
                   /\ analysis_results[k].collected_figures = <<>>
        /\ LastRound.action =
               IF ~Truthy(RecoveredCode(LastRound.response))
                   THEN "invalid_response"
               ELSE IF RecoveredCode(LastRound.response).kind = "str"
                   THEN "generate_code"
               ELSE "error"
        /\ LastRound.action = "generate_code" =>
               /\ LastRound.executed
               /\ last_code = RecoveredCode(LastRound.response).text

\* an action that is none of the three, sent with a final report, a figure
\* list and code: the code was run and the loop went on; then a mapping
\* without an action, whose code was run as well
C33_Witness ==
    /\ Len(round_log) = 2
    /\ round_log[1].response = RespUnknown
    /\ round_log[1].action = "generate_code"
    /\ round_log[2].response = RespNoAction
    /\ round_log[2].action = "generate_code"
    /\ "x" \in DOMAIN user_ns
    /\ Len(analysis_results) = 2

\* the response has one fenced block, tagged yaml or bare, that decodes to a
\* mapping without a code field, and no block tagged python
StructuredBlockWithoutCode(response) ==
    /\ ~HasTag(response, "python")
    /\ Cardinality({i \in 1..Len(response) : response[i] = Fence}) = 2
    /\ \A i \in 1..Len(response) : response[i].sym # "src"
    /\ parse_yaml_response(response).kind = "dict"
    /\ parse_yaml_response(response).keys # {}
    /\ "code" \notin parse_yaml_response(response).keys

\* C34 as stated: a response whose only fenced block is a structured block
\* without a code field is classified invalid_response and nothing of it is
\* submitted to the execution engine.
C34_AsStated ==
    \A i \in 1..Len(round_log) :
        StructuredBlockWithoutCode(round_log[i].response) =>
            /\ round_log[i].action = "invalid_response"
            /\ ~round_log[i].executed

(***************************************************************************)
(* PROPERTIES OF THE FINAL-REPORT PASS (Spec)                              *)
(***************************************************************************)
\* yaml.safe_load does not make a mapping of the response's structured
\* content: it raises (a malformed block) or gives a string or None
NotAMapping(response) == safe_load(YamlContent(response)).kind # "dict"

\* C35 as stated: when the response of the final-report pass cannot be
\* decoded into a mapping, malformed block and free text alike, analyze
\* returns, and the report body it returns is the raw response text.
C35_AsStated ==
    (pc = "returned" /\ NotAMapping(returned.report_response)) =>
        /\ returned.report_source = "raw response"
        /\ returned.report_raw = returned.report_response

(***************************************************************************)
(* PROPERTIES OF THE ROUND BUDGET (Spec)                                   *)
(***************************************************************************)
\* every round so far was an invalid response or an error caught by the loop
OnlyInvalidOrFailingRounds ==
    \A i \in 1..Len(round_log) :
        round_log[i].action \in {"invalid_response", "error"}

\* C36: every round, whatever its outcome, takes one unit of the budget:
\* the rounds are numbered 1, 2, ... and the round loop makes one model call
\* per round and at most max_rounds of them; and a run whose rounds were all
\* invalid responses or errors caught by the loop uses the whole budget and
\* returns total_rounds = max_rounds with no round result.
C36_BudgetConsumed ==
    /\ loop_calls <= max_rounds
    /\ Len(round_log) = loop_calls
    /\ current_round = loop_calls
    /\ \A i \in 1..Len(round_log) :
           /\ round_log[i].round = i
           /\ round_log[i].action \in {"generate_code", "collect_figures",
                                       "invalid_response", "error",
                                       "analysis_complete"}
    /\ (OnlyInvalidOrFailingRounds /\ pc \in {"final", "returned"}) =>
           /\ current_round = max_rounds
           /\ analysis_results = <<>>
    /\ (OnlyInvalidOrFailingRounds /\ pc = "returned") =>
           /\ returned.total_rounds = max_rounds
           /\ returned.analysis_results = <<>>

\* a budget of two rounds spent on an invalid response and on a round that
\* raised: analyze returned total_rounds = 2 and no round result
C36_Witness ==
    /\ max_rounds = 2
    /\ pc = "returned"
    /\ Len(round_log) = 2
    /\ round_log[1].action = "invalid_response"
    /\ round_log[2].action = "error"
    /\ returned.total_rounds = 2
    /\ returned.analysis_results = <<>>

\* the figure list of a response that decodes to a mapping
FigureList(response) ==
    LastOf(parse_yaml_response(response).content, "figures_to_collect").figs
\* a collect_figures response whose figures_to_collect has no value or has an
\* element that is not a mapping
MalformedFigures(response) ==
    /\ parse_yaml_response(response).kind = "dict"
    /\ GetVal(parse_yaml_response(response), "action", "generate_code")
           = "collect_figures"
    /\ "figures_to_collect" \in parse_yaml_response(response).keys
    /\ \/ FigureList(response).kind # "list"
       \/ \E i \in 1..Len(FigureList(response).items) :
              ~FigureList(response).items[i].is_dict

\* the round r did what the handler result h says
RoundDid(r, h) ==
    /\ r.raised = h.raised
    /\ r.executed = h.executed
    /\ r.action = IF h.raised THEN "error" ELSE h.pr.action
    /\ r.stop = (~h.raised /\ ~h.pr.continue)
    /\ user_ns = h.ns
    /\ r.executed => last_result = h.pr.result /\ ran_cell = h.ran

\* C39: a collect_figures response with a malformed figure list records no
\* figures and does not leave the loop: the round does what
\* _handle_generate_code does with the same response and an empty mapping,
\* so it is invalid_response when the second-chance extraction recovers
\* nothing, and otherwise the recovered text is submitted to execute_code.
C39_MalformedFigures ==
    (round_log # <<>> /\ MalformedFigures(LastRound.response)) =>
        /\ RoundDid(LastRound,
                    handle_generate_code(LastRound.response, EmptyDict,
                                         NsOfLastRound))
        /\ LastRound.action # "collect_figures"
        /\ ~LastRound.stop
        /\ pc \in {"loop", "final", "returned"}
        /\ \A k \in 1..Len(analysis_results) :
               analysis_results[k].round = LastRound.round =>
                   /\ analysis_results[k].action # "collect_figures"
                   /\ analysis_results[k].collected_figures = <<>>
        /\ LastRound.action =
               IF ~Truthy(extract_code_from_response(LastRound.response))
                   THEN "invalid_response"
               ELSE IF extract_code_from_response(LastRound.response).kind
                           = "str"
                   THEN "generate_code"
               ELSE "error"
        /\ LastRound.action = "generate_code" =>
               /\ LastRound.executed
               /\ ~LastRound.raised
               /\ last_code =
                      extract_code_from_response(LastRound.response).text
        /\ LastRound.action = "invalid_response" =>
               ~LastRound.executed /\ ~LastRound.raised

\* a figure list without a value in a yaml block: the text of the block was
\* submitted to execute_code; then a list of file names in a response
\* without a fence: invalid_response; no figure was recorded
C39_Witness ==
    /\ Len(round_log) = 2
    /\ round_log[1].response = RespFiguresNoList
    /\ round_log[1].action = "generate_code"
    /\ round_log[1].executed
    /\ round_log[2].response = RespFiguresNames
    /\ round_log[2].action = "invalid_response"
    /\ \A k \in 1..Len(analysis_results) :
           analysis_results[k].collected_figures = <<>>

(***************************************************************************)
(* PROPERTIES OF THE IMPORT CHECK (ImportSpec)                             *)
(***************************************************************************)
\* the module names an import statement names, each in full
ModulesNamed(stmt) ==
    IF stmt.type = "Import"
        THEN {stmt.names[i].name : i \in 1..Len(stmt.names)}
    ELSE IF stmt.type = "ImportFrom" THEN {stmt.module}
    ELSE {}
ListedInFull(stmt) == ModulesNamed(stmt) \subseteq ALLOWED_IMPORTS
ImportRefused == last_result.error.prefix = "Code safety check failed"

\* C40: a fragment of import statements is accepted by the check if and only
\* if every module name it names, dotted names in full, is literally a member
\* of ALLOWED_IMPORTS. A refusal names a module the fragment names that is not
\* listed, and nothing runs. So import os.path, from os.path import join and
\* from sklearn.linear_model import LinearRegression are refused although os
\* and sklearn are listed, import matplotlib.pyplot is accepted because that
\* dotted name is listed, and a relative import without a module name is
\* refused.
C40_ImportCheck ==
    exec_pc = "execute_code" =>
        /\ ~ImportRefused <=>
               \A i \in 1..Len(last_code) : ListedInFull(last_code[i])
        /\ ImportRefused =>
               /\ last_result.error.kind = "Disallowed import"
               /\ last_result.error.name \notin ALLOWED_IMPORTS
               /\ \E i \in 1..Len(last_code) :
                      last_result.error.name \in ModulesNamed(last_code[i])
               /\ ~last_result.success
               /\ ~ran_cell
               /\ user_ns = ns_before
        /\ ~ImportRefused => ran_cell
        /\ (\E i \in 1..Len(last_code) :
               last_code[i] \in {ImportOsPath, ImportJsonOsPath, FromOsPath,
                                 FromLinearModel, FromRelative})
               => ImportRefused
        /\ (\A i \in 1..Len(last_code) :
               last_code[i] \in {ImportOs, ImportPyplot, FromPyplot,
                                 FromSklearn})
               => ~ImportRefused

\* import matplotlib.pyplot as plt followed by import os.path has been
\* submitted: the first is let through, the second is refused by name
C40_Witness ==
    /\ exec_pc = "execute_code"
    /\ last_code = <<ImportPyplot, ImportOsPath>>
    /\ ImportRefused
    /\ last_result.error.name = "os.path"

(***************************************************************************)
(* PROPERTIES OF THE PATHS INTO THE SESSION (ConvertSpec)                  *)
(***************************************************************************)
\* user_ns is ns_before with the name n bound, every other binding as it was
OnlyBinds(n) ==
    /\ DOMAIN user_ns = DOMAIN ns_before \cup {n}
    /\ \A m \in DOMAIN ns_before \ {n} : user_ns[m] = ns_before[m]
\* the latest conversion attempt submitted a fragment to execute_code
ConversionSubmitted == pc = "final" /\ conversion.submitted

\* every fragment of the model, from a round or from a conversion attempt,
\* reaches shell.run_cell only after the safety check accepted it; a fragment
\* the check does not accept is refused with the namespace unchanged, and so
\* is the conversion fragment that calls open(), on each attempt it is
\* submitted; a conversion is returned only for a fragment that ran
CheckedFirst ==
    /\ ran_cell => (Executed /\ check_code_safety(last_code).safe)
    /\ (Executed /\ ~check_code_safety(last_code).safe) => Refused
    /\ (Executed /\ "open" \in DirectDangerousCalls(last_code)) => Refused
    /\ ConversionSubmitted =>
           /\ Executed
           /\ conversion.result = "code" <=> last_result.success
           /\ last_result.success => ran_cell
           /\ last_code = <<WriteJsx>> =>
                  /\ Refused
                  /\ last_result.error.kind = "Disallowed function call"
                  /\ last_result.error.name = "open"
                  /\ conversion.refused >= 1
                  /\ conversion.result # "code"
    /\ conversion.refused <= conversion.attempt
    /\ conversion.attempt <= max_attempts
    /\ conversion.result = "None" => conversion.attempt = max_attempts

\* C38 as stated: every model fragment is checked first, and set_variable is
\* the only host-side operation that changes the namespace without the check.
C38_AsStated ==
    /\ CheckedFirst
    /\ (~Executed /\ user_ns # ns_before) =>
           /\ exec_pc = "set_variable"
           /\ \E n \in DOMAIN user_ns : OnlyBinds(n)

\* C38: every fragment that reaches the session on behalf of the model, from
\* the round loop and from the chart-conversion retry loop alike, passes
\* execute_code's safety check first, so a conversion fragment that calls
\* open() directly is refused on every attempt. The host-side operations that
\* change the namespace without the check are set_variable, which binds
\* exactly the given name and leaves every other binding unchanged, and the
\* construction of an executor and reset_environment, which bind the common
\* imports again (reset_environment after discarding every binding).
C38_CheckedPaths ==
    /\ CheckedFirst
    /\ exec_pc = "set_variable" => \E n \in DOMAIN user_ns : OnlyBinds(n)
    /\ exec_pc = "reset_environment" => user_ns = BaselineNs
    /\ exec_pc = "constructed" =>
           /\ DOMAIN user_ns = DOMAIN ns_before
           /\ \A n \in DOMAIN user_ns :
                  user_ns[n] = IF n \in DOMAIN CommonImports
                                   THEN CommonImports[n] ELSE ns_before[n]
    /\ (~Executed /\ user_ns # ns_before) =>
           exec_pc \in {"set_variable", "reset_environment", "constructed"}

\* the conversion of a chart gave up after max_attempts attempts that each
\* submitted a fragment calling open() and were each refused, analyze has
\* returned, and reset_environment has then changed the namespace
C38_Witness ==
    /\ exec_pc = "reset_environment"
    /\ user_ns # ns_before
    /\ conversion.chart = 1
    /\ conversion.attempt = max_attempts
    /\ conversion.refused = max_attempts
    /\ conversion.result = "None"

====
